---------------------------- MODULE Spec2Model ----------------------------
(***************************************************************************)
(* Model of the research-and-synthesis pipeline and the RAG-lite layer of  *)
(* stock-research-ai-agent:                                                *)
(*   - ResearchOrchestrator.run_parallel_research  (research_orchestrator) *)
(*   - SynthesisAgent._build_synthesis_prompt      (synthesis_agent)       *)
(*   - ReportChunker                               (report_chunker)        *)
(*   - VectorSearch.search_chunks                  (vector_search)         *)
(*   - EmbeddingService.create_embeddings_batch    (embedding_service)     *)
(*   - research_subject, synthesize_report and the agent runs with retry   *)
(*                               (specialized_agent, synthesis_agent, agent) *)
(*   - DatabaseManager's pooled connections        (database)              *)
(*   - StockResearchAgent: start_research, continue_conversation,          *)
(*     generate_report, chat_with_report, reset_conversation (agent)       *)
(*   - ReportChatAgent.chat_with_report, answer_question                   *)
(*                                                 (report_chat_agent)     *)
(*   - ReportStorage.store_report, DatabaseManager (report_storage,        *)
(*                                                  database)              *)
(* Each component has its own specification over a shared variable list;   *)
(* the variables of the components a specification does not run stay idle. *)
(***************************************************************************)
EXTENDS Integers, Sequences, FiniteSets, TLC

VARIABLES
    \* ---- research orchestrator / synthesis ----
    rpc,            \* position of the caller of run_parallel_research
    max_workers,    \* argument of run_parallel_research
    taskState,      \* future of each subject: queued / running / done / raised
    yielded,        \* futures as_completed has already handed to the loop
    results,        \* the results dict, as its insertion-ordered item list
    prompt_subjects, \* subject ids in the order they appear in the synthesis prompt
    \* ---- report chunker ----
    cpc,            \* position inside chunk_report / _chunk_text
    report_text,    \* argument of chunk_report (a list of characters)
    chunk_size,     \* argument of chunk_report in tokens, 0 for None
    overlap,        \* constructor argument of ReportChunker in tokens
    preserve_sections, \* argument of chunk_report
    sections,       \* list of [name, text] the report was split into
    sec,            \* index of the section _chunk_text is called with
    start,          \* window start inside _chunk_text
    iter,           \* iterations of the while loop taken in this _chunk_text call
    section_chunks, \* the list _chunk_text builds and returns
    chunks,         \* the list chunk_report builds and returns
    \* ---- vector search ----
    spc,            \* position of the caller of search_chunks
    db_chunks,      \* report_chunks rows of the report: chunk_index -> embedding column
    query_embedding, \* argument of search_chunks
    top_k,          \* argument of search_chunks
    min_score,      \* argument of search_chunks
    search_results, \* the list search_chunks returns
    \* ---- embedding service ----
    model,          \* self.model of the EmbeddingService
    epc,            \* position inside create_embeddings_batch
    texts,          \* argument of create_embeddings_batch
    batch_size,     \* argument of create_embeddings_batch
    batch_fails,    \* offsets whose batch call to the embeddings API raises
    item_fails,     \* positions whose single call to the embeddings API raises
    batch_i,        \* loop variable i of "for i in range(0, len(texts), batch_size)"
    embeddings,     \* the list create_embeddings_batch builds and returns
    \* ---- report storage / database ----
    reports,        \* committed rows of table reports
    report_chunks,  \* committed rows of table report_chunks
    stpc,           \* position inside store_report
    st_report_text, \* argument report_text of store_report
    st_chunks,      \* the chunks list store_report hands to save_chunks
    sk,             \* chunks save_chunks has inserted in its open transaction
    txn,            \* rows inserted by save_chunks and not yet committed
    dpc,            \* position of the caller of delete_report
    del_target,     \* argument report_id of delete_report
    \* ---- agent runs ----
    acomp,          \* the component whose LLM agent run this is
    apc,            \* position inside research_subject / synthesize_report / _get_agent_response
    a_subject,      \* subject.id, argument of research_subject
    max_retries,    \* AGENT_RATE_LIMIT_MAX_RETRIES as read by the retry loop
    base_delay,     \* AGENT_RATE_LIMIT_BACKOFF_SECONDS as read by the retry loop
    attempt,        \* loop variable of the retry loop
    llm_outcomes,   \* outcome of each Runner.run_sync call made so far
    sleeps,         \* argument of each time.sleep call made so far
    agent_result,   \* value returned, or the exception raised, to the caller
    \* ---- report chat ----
    chpc,           \* position inside chat_with_report / answer_question
    conversation_history, \* self.conversation_history of the ReportChatAgent
    question,       \* argument of chat_with_report
    reset_history,  \* argument of chat_with_report
    history_before, \* conversation_history as it was when the call began
    llm_calls,      \* Runner.run_sync calls made by the current call
    ch_answer,      \* the answer the current call returned
    turns,          \* chat_with_report calls made so far
    \* ---- database connection pool ----
    dbpc,           \* position inside a DatabaseManager operation
    db_op,          \* the operation in progress, or the last one
    pool_available, \* connections in the pool's queue
    db_result,      \* how the last operation ended
    db_ops,         \* operations begun so far
    \* ---- StockResearchAgent ----
    current_ticker,
    current_trade_type,
    current_report_id,
    last_report_text,
    orch_history,   \* self.conversation_history of the StockResearchAgent
    last_op,        \* the StockResearchAgent operation that ran last
    llm_messages,   \* input of the last orchestrator run
    llm_result,     \* "ok" or "error": how the last orchestrator run ended
    gr_steps,       \* collaborators the last generate_report called, and how
                    \* each one ended
    gr_return,      \* return value of the last generate_report
    tool_status,    \* status message of the last generate_report tool call
    stored_reports, \* report rows in the relational store
    chat_reached,   \* the last chat_with_report reached the chat agent
    history_report_ids,   \* the report_id argument of the call that appended
                          \* each entry of the chat agent's history
    rag_prompt_report_ids \* those ids for the history entries the last RAG
                          \* prompt carried

researchVars == <<rpc, max_workers, taskState, yielded, results, prompt_subjects>>

chunkerVars == <<cpc, report_text, chunk_size, overlap, preserve_sections,
                 sections, sec, start, iter, section_chunks, chunks>>

searchVars == <<spc, db_chunks, query_embedding, top_k, min_score, search_results>>

embedVars == <<model, epc, texts, batch_size, batch_fails, item_fails, batch_i, embeddings>>

storeVars == <<reports, report_chunks, stpc, st_report_text, st_chunks, sk, txn,
               dpc, del_target>>

agentVars == <<acomp, apc, a_subject, max_retries, base_delay, attempt,
               llm_outcomes, sleeps, agent_result>>

chatVars == <<chpc, conversation_history, question, reset_history, history_before,
              llm_calls, ch_answer, turns>>

poolVars == <<dbpc, db_op, pool_available, db_result, db_ops>>

sessionVars == <<current_ticker, current_trade_type, current_report_id,
                 last_report_text, orch_history, last_op, llm_messages, llm_result,
                 gr_steps, gr_return, tool_status, stored_reports, chat_reached,
                 history_report_ids, rag_prompt_report_ids>>

nonResearchVars == <<chunkerVars, searchVars, embedVars, storeVars, agentVars, poolVars, sessionVars,
    chatVars>>

nonChunkerVars == <<researchVars, searchVars, embedVars, storeVars, agentVars, poolVars, sessionVars,
    chatVars>>

nonSearchVars == <<researchVars, chunkerVars, embedVars, storeVars, agentVars, poolVars, sessionVars,
    chatVars>>

nonEmbedVars == <<researchVars, chunkerVars, searchVars, storeVars, agentVars, poolVars, sessionVars,
    chatVars>>

nonAgentVars == <<researchVars, chunkerVars, searchVars, embedVars, storeVars, chatVars,
                  poolVars, sessionVars>>

nonPoolVars == <<researchVars, chunkerVars, searchVars, embedVars, storeVars, agentVars,
                 chatVars, sessionVars>>

vars == <<rpc, max_workers, taskState, yielded, results, prompt_subjects,
          cpc, report_text, chunk_size, overlap, preserve_sections,
          sections, sec, start, iter, section_chunks, chunks,
          spc, db_chunks, query_embedding, top_k, min_score, search_results,
          model, epc, texts, batch_size, batch_fails, item_fails, batch_i, embeddings,
          reports, report_chunks, stpc, st_report_text, st_chunks, sk, txn,
          dpc, del_target,
          acomp, apc, a_subject, max_retries, base_delay, attempt,
          llm_outcomes, sleeps, agent_result,
          chpc, conversation_history, question, reset_history, history_before,
          llm_calls, ch_answer, turns,
          dbpc, db_op, pool_available, db_result, db_ops,
          current_ticker, current_trade_type, current_report_id,
          last_report_text, orch_history, last_op, llm_messages, llm_result,
          gr_steps, gr_return, tool_status, stored_reports, chat_reached,
          history_report_ids, rag_prompt_report_ids>>

(***************************************************************************)
(* Python dict, kept as the list of its items in insertion order.          *)
(***************************************************************************)
DictKeys(d) == [i \in 1..Len(d) |-> d[i][1]]

DictKeySet(d) == {d[i][1] : i \in 1..Len(d)}

DictGet(d, k) == d[CHOOSE i \in 1..Len(d) : d[i][1] = k][2]

\* d[k] = v: a new key goes last, an existing key keeps its place.
DictSet(d, k, v) ==
    IF k \in DictKeySet(d)
    THEN [i \in 1..Len(d) |-> IF d[i][1] = k THEN <<k, v>> ELSE d[i]]
    ELSE Append(d, <<k, v>>)

(***************************************************************************)
(* research_subjects.py: the static subject registry.                      *)
(***************************************************************************)
get_research_subjects ==
    << "products_services", "revenue_breakdown", "value_propositions",
       "buying_process", "seasonality", "margin_structure" >>

NumSubjects == 6

SubjectIds == {get_research_subjects[i] : i \in 1..NumSubjects}


(***************************************************************************)
(* research_orchestrator.py: run_parallel_research.                        *)
(***************************************************************************)
\* What agent.research_subject returns for subject s when it returns.
TaskResult(s) ==
    [subject_id |-> s, research_output |-> <<"findings", s>>,
     has_error |-> FALSE, error |-> <<>>]

\* str(e) of the exception a raising task of subject s carries.
TaskException(s) == <<"exception", s>>

\* The synthetic entry of the except branch (lines 105-113).
ErrorResult(s, e) ==
    [subject_id |-> s, research_output |-> <<"Error: ", e>>,
     has_error |-> TRUE, error |-> e]

\* try branch (lines 99-100): results[subject.id] = future.result()
OnTaskResult(res, s) == DictSet(res, s, TaskResult(s))

OnTaskExceptionDropped(res, s, e) == res

\* except branch (lines 103-113): results[subject.id] = {... "error": str(e)}
OnTaskException(res, s, e) == DictSet(res, s, ErrorResult(s, e))

FinishedOkOnly(s) == taskState[s] = "done"

\* Future.done(): the task returned or raised.
Finished(s) == taskState[s] \in {"done", "raised"}

\* executor.shutdown(wait=True) at the end of the with block returns once the
\* workers have drained the queue and no task is running.
PoolIdle == \A s \in SubjectIds : taskState[s] \notin {"queued", "running"}

NumRunning == Cardinality({s \in SubjectIds : taskState[s] = "running"})

\* The executor's work queue is FIFO: the next task to start is the first
\* submitted one that is still queued.
HeadOfQueue(s) ==
    \E i \in 1..NumSubjects :
        /\ get_research_subjects[i] = s
        /\ taskState[s] = "queued"
        /\ \A j \in 1..(i - 1) : taskState[get_research_subjects[j]] # "queued"

\* as_completed(future_to_subject) is exhausted once it has yielded every future.
LoopExhausted == yielded = SubjectIds

\* lines 70-92: the pool is created and one task per subject is submitted.
Dispatch ==
    /\ rpc = "called"
    /\ taskState' = [s \in SubjectIds |-> "queued"]
    /\ yielded' = {}
    /\ results' = <<>>
    /\ rpc' = "collecting"
    /\ UNCHANGED <<max_workers, prompt_subjects>>
    /\ UNCHANGED nonResearchVars

\* A pool worker takes the next task from the queue.
TaskStart(s) ==
    /\ rpc = "collecting"
    /\ HeadOfQueue(s)
    /\ NumRunning < max_workers
    /\ taskState' = [taskState EXCEPT ![s] = "running"]
    /\ UNCHANGED <<rpc, max_workers, yielded, results, prompt_subjects>>
    /\ UNCHANGED nonResearchVars

\* agent.research_subject returns its result dict.
TaskReturn(s) ==
    /\ taskState[s] = "running"
    /\ taskState' = [taskState EXCEPT ![s] = "done"]
    /\ UNCHANGED <<rpc, max_workers, yielded, results, prompt_subjects>>
    /\ UNCHANGED nonResearchVars

\* agent.research_subject raises.
TaskRaise(s) ==
    /\ taskState[s] = "running"
    /\ taskState' = [taskState EXCEPT ![s] = "raised"]
    /\ UNCHANGED <<rpc, max_workers, yielded, results, prompt_subjects>>
    /\ UNCHANGED nonResearchVars

\* One iteration of the as_completed loop (lines 96-114): a finished future
\* that was not yet yielded is handed to the loop body.
Collect(s) ==
    /\ rpc = "collecting"
    /\ Finished(s)
    /\ s \notin yielded
    /\ yielded' = yielded \cup {s}
    /\ results' = IF taskState[s] = "done"
                  THEN OnTaskResult(results, s)
                  ELSE OnTaskException(results, s, TaskException(s))
    /\ UNCHANGED <<rpc, max_workers, taskState, prompt_subjects>>
    /\ UNCHANGED nonResearchVars

\* The loop ends, the with block shuts the pool down (wait=True) and the
\* method returns results (lines 115-119).
Return ==
    /\ rpc = "collecting"
    /\ LoopExhausted
    /\ PoolIdle
    /\ rpc' = "returned"
    /\ UNCHANGED <<max_workers, taskState, yielded, results, prompt_subjects>>
    /\ UNCHANGED nonResearchVars

(***************************************************************************)
(* synthesis_agent.py: _build_synthesis_prompt, lines 223-242: one block   *)
(* per item of research_outputs.items(), in the dict's iteration order.    *)
(***************************************************************************)
BuildSynthesisPrompt(research_outputs) ==
    [i \in 1..Len(research_outputs) |-> research_outputs[i][1]]

\* agent.py lines 346-351: generate_report passes the mapping to synthesize_report.
Synthesize ==
    /\ rpc = "returned"
    /\ prompt_subjects' = BuildSynthesisPrompt(results)
    /\ rpc' = "synthesized"
    /\ UNCHANGED <<max_workers, taskState, yielded, results>>
    /\ UNCHANGED nonResearchVars

(***************************************************************************)
(* Python string primitives used by report_chunker.py.  A string is the    *)
(* list of its characters.                                                 *)
(***************************************************************************)
Max(a, b) == IF a >= b THEN a ELSE b

Min(a, b) == IF a <= b THEN a ELSE b

\* Python's normalisation of a slice bound for a string of length n.
SliceBound(i, n) == IF i < 0 THEN Max(0, n + i) ELSE Min(i, n)

\* text[a:b]
Slice(text, a, b) ==
    LET lo == SliceBound(a, Len(text))
        hi == SliceBound(b, Len(text))
    IN  IF lo >= hi THEN <<>> ELSE SubSeq(text, lo + 1, hi)

IsSpace(c) == c \in {" ", "\n", "\t"}

IsUpper(c) == c \in {"A", "B", "C"}

IsDigit(c) == c \in {"0", "1", "2"}

IsSentenceEnd(c) == c \in {".", "!", "?"}

\* text.strip()
Strip(text) ==
    LET keep == {i \in 1..Len(text) : ~IsSpace(text[i])}
    IN  IF keep = {} THEN <<>>
        ELSE SubSeq(text, CHOOSE i \in keep : \A j \in keep : i <= j,
                          CHOOSE i \in keep : \A j \in keep : i >= j)

\* text.lstrip('#')
LStripHash(text) ==
    LET keep == {i \in 1..Len(text) : text[i] # "#"}
    IN  IF keep = {} THEN <<>>
        ELSE SubSeq(text, CHOOSE i \in keep : \A j \in keep : i <= j, Len(text))

\* text.split('\n')
RECURSIVE SplitLines(_)
SplitLines(text) ==
    LET nl == {i \in 1..Len(text) : text[i] = "\n"}
    IN  IF nl = {} THEN <<text>>
        ELSE LET k == CHOOSE i \in nl : \A j \in nl : i <= j
             IN  <<SubSeq(text, 1, k - 1)>> \o SplitLines(SubSeq(text, k + 1, Len(text)))

\* '\n'.join(lines)
RECURSIVE JoinLines(_)
JoinLines(lines) ==
    IF Len(lines) = 0 THEN <<>>
    ELSE IF Len(lines) = 1 THEN lines[1]
    ELSE lines[1] \o <<"\n">> \o JoinLines(Tail(lines))

(***************************************************************************)
(* report_chunker.py                                                       *)
(***************************************************************************)
CharsPerToken == 4

\* header_pattern (line 90), matched with re.match against line.strip():
\*   #{1,3}\s+.+?   |   \d+\.\s+[A-Z][^\n]+   |   [A-Z][^\n:]+:      then $
IsHeader(l) ==
    LET n == Len(l)
        NoNewline(a, b) == \A i \in a..b : l[i] # "\n"
    IN  \/ \E h \in 1..3 : \E w \in 1..n :
              /\ h + w < n
              /\ \A i \in 1..h : l[i] = "#"
              /\ \A i \in (h + 1)..(h + w) : IsSpace(l[i])
              /\ NoNewline(h + w + 1, n)
        \/ \E d \in 1..n : \E w \in 1..n :
              /\ d + 1 + w + 1 < n
              /\ \A i \in 1..d : IsDigit(l[i])
              /\ l[d + 1] = "."
              /\ \A i \in (d + 2)..(d + 1 + w) : IsSpace(l[i])
              /\ IsUpper(l[d + 2 + w])
              /\ NoNewline(d + 3 + w, n)
        \/ /\ n >= 3
           /\ IsUpper(l[1])
           /\ l[n] = ":"
           /\ \A i \in 2..(n - 1) : l[i] # ":" /\ l[i] # "\n"

Introduction == [kind |-> "Introduction", text |-> <<>>]

FullReport == [kind |-> "Full Report", text |-> <<>>]

NoSection == [kind |-> "None", text |-> <<>>]

\* line 104: current_section = line.strip().lstrip('#').strip()
HeaderName(line) == [kind |-> "header", text |-> Strip(LStripHash(Strip(line)))]

\* The for loop of _split_into_sections (lines 96-107) over lines[i..],
\* with the loop's locals current_section, current_text and sections.
RECURSIVE SplitLoop(_, _, _, _, _)
SplitLoop(lines, i, current_section, current_text, secs) ==
    IF i > Len(lines)
    THEN \* lines 110-111: add the final section
         IF current_text # <<>>
         THEN Append(secs, [name |-> current_section, text |-> JoinLines(current_text)])
         ELSE secs
    ELSE IF IsHeader(Strip(lines[i]))
         THEN SplitLoop(lines, i + 1, HeaderName(lines[i]), <<lines[i]>>,
                        IF current_text # <<>>
                        THEN Append(secs, [name |-> current_section,
                                           text |-> JoinLines(current_text)])
                        ELSE secs)
         ELSE SplitLoop(lines, i + 1, current_section,
                        Append(current_text, lines[i]), secs)

\* _split_into_sections (lines 77-117)
SplitIntoSections(text) ==
    LET secs == SplitLoop(SplitLines(text), 1, Introduction, <<>>, <<>>)
    IN  IF secs = <<>> THEN <<[name |-> FullReport, text |-> text]>> ELSE secs

\* _find_sentence_boundary (lines 182-207): the last match of [.!?]\s+[A-Z]
\* inside text[from:to]; from + match.end() - 1, or to when nothing matches.
FindSentenceBoundary(text, from, to) ==
    LET search_text == Slice(text, from, to)
        n == Len(search_text)
        \* m is the (1-based) place of the capital letter that ends a match
        ends == {m \in 3..n :
                    /\ IsUpper(search_text[m])
                    /\ \E p \in 1..(m - 2) :
                          /\ IsSentenceEnd(search_text[p])
                          /\ \A q \in (p + 1)..(m - 1) : IsSpace(search_text[q])}
    IN  IF ends = {} THEN to
        ELSE from + (CHOOSE m \in ends : \A k \in ends : m >= k) - 1

\* Largest chunk size, in tokens.
MaxChunkTokens == 4

\* The instance's own chunk_size (constructor argument, line 11).
InstanceChunkSize == MaxChunkTokens

\* lines 46-49: the chunk_size argument overrides the instance's size when
\* it is truthy.
ChunkSizeChars ==
    IF chunk_size # 0 THEN chunk_size * CharsPerToken
    ELSE InstanceChunkSize * CharsPerToken

\* line 22
OverlapChars == overlap * CharsPerToken

\* A search span of half the window.
SearchSpanHalf(chunk_size_chars) == chunk_size_chars \div 2

\* int(chunk_size_chars * 0.2)
SearchSpan(chunk_size_chars) == chunk_size_chars \div 5

\* lines 154-163: the end of the window that starts at st.
WindowEnd(text, st, chunk_size_chars) ==
    LET end == st + chunk_size_chars
    IN  IF end < Len(text)
        THEN LET search_start == Max(st, end - SearchSpan(chunk_size_chars))
                 sentence_end == FindSentenceBoundary(text, search_start, end)
             IN  IF sentence_end > st THEN sentence_end ELSE end
        ELSE end

NextStartSkipsOne(end) == end + 1

\* line 176: start = end - self.overlap_chars
NextStart(end) == end - OverlapChars

\* lines 165-173: the chunk of the window [st, end), or nothing when the
\* stripped text is empty.
WindowChunks(text, st, end, section) ==
    LET chunk_text == Strip(Slice(text, st, end))
    IN  IF chunk_text # <<>>
        THEN <<[chunk_text |-> chunk_text, section |-> section,
                start_char |-> st, end_char |-> end]>>
        ELSE <<>>

AssignIndicesPerSection(scs, chunk_index) ==
    [i \in 1..Len(scs) |->
        [chunk_text |-> scs[i].chunk_text, section |-> scs[i].section,
         start_char |-> scs[i].start_char, end_char |-> scs[i].end_char,
         chunk_index |-> i - 1]]

\* lines 65-68 and 72-73: the chunks of one _chunk_text call get the next
\* indices, counting on from chunk_index.
AssignIndices(scs, chunk_index) ==
    [i \in 1..Len(scs) |->
        [chunk_text |-> scs[i].chunk_text, section |-> scs[i].section,
         start_char |-> scs[i].start_char, end_char |-> scs[i].end_char,
         chunk_index |-> chunk_index + i - 1]]

CurrentSection == sections[sec]

\* Iterations of the while loop a _chunk_text call is followed for.
MaxIter == 8

\* chunk_report up to the first _chunk_text call (lines 46-58, 69-71).
ChunkReport ==
    /\ cpc = "called"
    /\ sections' = IF preserve_sections
                   THEN SplitIntoSections(report_text)
                   ELSE <<[name |-> NoSection, text |-> report_text]>>
    /\ sec' = 1
    /\ chunks' = <<>>
    /\ cpc' = "chunk_text"
    /\ UNCHANGED <<report_text, chunk_size, overlap, preserve_sections,
                   start, iter, section_chunks>>
    /\ UNCHANGED nonChunkerVars

\* _chunk_text, lines 136-147: the text fits in one chunk.
ChunkTextShort ==
    /\ cpc = "chunk_text"
    /\ Len(CurrentSection.text) <= ChunkSizeChars
    /\ section_chunks' = <<[chunk_text |-> CurrentSection.text,
                            section |-> CurrentSection.name,
                            start_char |-> 0,
                            end_char |-> Len(CurrentSection.text)]>>
    /\ cpc' = "assign"
    /\ UNCHANGED <<report_text, chunk_size, overlap, preserve_sections,
                   sections, sec, start, iter, chunks>>
    /\ UNCHANGED nonChunkerVars

\* _chunk_text, lines 136-151: the text needs several windows.
ChunkTextLong ==
    /\ cpc = "chunk_text"
    /\ Len(CurrentSection.text) > ChunkSizeChars
    /\ section_chunks' = <<>>
    /\ start' = 0
    /\ iter' = 0
    /\ cpc' = "window"
    /\ UNCHANGED <<report_text, chunk_size, overlap, preserve_sections,
                   sections, sec, chunks>>
    /\ UNCHANGED nonChunkerVars

\* One iteration of the while loop of _chunk_text (lines 153-178).
WindowStep ==
    /\ cpc = "window"
    /\ start < Len(CurrentSection.text)
    /\ iter < MaxIter
    /\ LET end == WindowEnd(CurrentSection.text, start, ChunkSizeChars)
       IN  /\ section_chunks' = section_chunks \o
                 WindowChunks(CurrentSection.text, start, end, CurrentSection.name)
           /\ start' = NextStart(end)
           /\ cpc' = IF NextStart(end) >= Len(CurrentSection.text)
                     THEN "assign" ELSE "window"
    /\ iter' = iter + 1
    /\ UNCHANGED <<report_text, chunk_size, overlap, preserve_sections,
                   sections, sec, chunks>>
    /\ UNCHANGED nonChunkerVars

\* chunk_report, lines 65-68 / 72-73: the chunks _chunk_text returned get
\* their chunk_index; then the next section, or return (line 75).
AssignChunkIndices ==
    /\ cpc = "assign"
    /\ chunks' = chunks \o AssignIndices(section_chunks, Len(chunks))
    /\ IF sec < Len(sections)
       THEN sec' = sec + 1 /\ cpc' = "chunk_text"
       ELSE sec' = sec /\ cpc' = "returned"
    /\ UNCHANGED <<report_text, chunk_size, overlap, preserve_sections,
                   sections, start, iter, section_chunks>>
    /\ UNCHANGED nonChunkerVars

(***************************************************************************)
(* Report texts: up to MaxSegs pieces, each one of a few eight-character   *)
(* fragments (plain text, blanks, a sentence end, header lines).           *)
(***************************************************************************)
MaxSegs == 3

MaxOverlapTokens == 2

Segments ==
    { <<"a", "a", "a", "a", "a", "a", "a", "a">>,
      <<" ", " ", " ", " ", " ", " ", " ", " ">>,
      <<"a", "a", "a", "a", "a", ".", " ", "A">>,
      <<"#", " ", "a", "\n", "a", "a", "a", "a">>,
      <<"a", "a", "\n", "A", "a", ":", "\n", "a">>,
      <<"\n", "1", ".", " ", "A", "b", "\n", " ">> }

RECURSIVE Concat(_)
Concat(segs) == IF segs = <<>> THEN <<>> ELSE Head(segs) \o Concat(Tail(segs))

Texts == {Concat(segs) : segs \in UNION {[1..n -> Segments] : n \in 0..MaxSegs}}

(***************************************************************************)
(* vector_search.py and the chunk query of database.py.  A similarity is   *)
(* kept exactly, as the pair (num, den2) that stands for num / sqrt(den2). *)
(***************************************************************************)
\* The embedding column is NULL (save_chunks stores None for a missing
\* embedding, database.py line 245).
NULL == <<>>

Dot(a, b) == a[1] * b[1] + a[2] * b[2]

\* _cosine_similarity (lines 140-162)
CosineSimilarity(vec1, vec2) ==
    LET norm1sq == Dot(vec1, vec1)
        norm2sq == Dot(vec2, vec2)
    IN  IF norm1sq = 0 \/ norm2sq = 0
        THEN [num |-> 0, den2 |-> 1]
        ELSE [num |-> Dot(vec1, vec2), den2 |-> norm1sq * norm2sq]

\* a >= b for two similarities (float comparison, done exactly).
ScoreGE(a, b) ==
    IF a.num >= 0 /\ b.num < 0 THEN TRUE
    ELSE IF a.num < 0 /\ b.num >= 0 THEN FALSE
    ELSE IF a.num >= 0
         THEN a.num * a.num * b.den2 >= b.num * b.num * a.den2
         ELSE a.num * a.num * b.den2 <= b.num * b.num * a.den2

ScoreEQ(a, b) == ScoreGE(a, b) /\ ScoreGE(b, a)

\* get_chunks_by_report (database.py lines 291-311): the report's rows,
\* ORDER BY chunk_index ASC.
GetChunksByReport ==
    LET idx == DOMAIN db_chunks
        RECURSIVE Ordered(_)
        Ordered(rest) ==
            IF rest = {} THEN <<>>
            ELSE LET i == CHOOSE x \in rest : \A y \in rest : x <= y
                 IN  <<[chunk_index |-> i, embedding |-> db_chunks[i]]>>
                         \o Ordered(rest \ {i})
    IN  Ordered(idx)

\* lines 55-78: the loop that scores the chunks and keeps the candidates.
RECURSIVE ScoreChunks(_, _, _)
ScoreChunks(rows, query_vec, threshold) ==
    IF rows = <<>> THEN <<>>
    ELSE LET chunk == Head(rows)
             rest == ScoreChunks(Tail(rows), query_vec, threshold)
         IN  IF chunk.embedding = NULL THEN rest
             ELSE LET similarity == CosineSimilarity(query_vec, chunk.embedding)
                  IN  IF ScoreGE(similarity, threshold)
                      THEN <<[chunk_index |-> chunk.chunk_index,
                              similarity_score |-> similarity]>> \o rest
                      ELSE rest

\* Insert x behind every element that list.sort(reverse=True) keeps before it.
RECURSIVE InsertDescTiesFirst(_, _)
InsertDescTiesFirst(sorted, x) ==
    IF sorted = <<>> THEN <<x>>
    ELSE IF ScoreGE(x.similarity_score, Head(sorted).similarity_score)
         THEN <<x>> \o sorted
         ELSE <<Head(sorted)>> \o InsertDescTiesFirst(Tail(sorted), x)

RECURSIVE InsertDesc(_, _)
InsertDesc(sorted, x) ==
    IF sorted = <<>> THEN <<x>>
    ELSE IF ScoreGE(Head(sorted).similarity_score, x.similarity_score)
         THEN <<Head(sorted)>> \o InsertDesc(Tail(sorted), x)
         ELSE <<x>> \o sorted

RECURSIVE SortFrom(_, _)
SortFrom(sorted, rest) ==
    IF rest = <<>> THEN sorted
    ELSE SortFrom(InsertDesc(sorted, Head(rest)), Tail(rest))

\* line 81: results.sort(key=similarity_score, reverse=True); Python's sort
\* is stable, also with reverse=True.
SortByScoreDesc(rs) == SortFrom(<<>>, rs)

\* search_chunks (lines 46-84)
SearchChunksResult ==
    LET rows == GetChunksByReport
    IN  IF rows = <<>> THEN <<>>
        ELSE Slice(SortByScoreDesc(ScoreChunks(rows, query_embedding, min_score)),
                   0, top_k)

SearchChunks ==
    /\ spc = "called"
    /\ search_results' = SearchChunksResult
    /\ spc' = "returned"
    /\ UNCHANGED <<db_chunks, query_embedding, top_k, min_score>>
    /\ UNCHANGED nonSearchVars

\* Embedding vectors (two components) and the rows a report may have.
MaxChunks == 3

Vectors == { <<1, 0>>, <<0 - 1, 0>>, <<1, 1>>, <<0, 0>> }

\* The stored form of the placeholder create_embeddings_batch returns for a
\* text it could not embed (embedding_service.py line 87): all components 0.
PlaceholderVector == <<0, 0>>

DefaultMinScore == [num |-> 0, den2 |-> 1]

\* min_score: the default 0.0, 0.5 and -1.0
MinScores == { DefaultMinScore, [num |-> 1, den2 |-> 4], [num |-> 0 - 1, den2 |-> 1] }

TopKs == (0 - 2)..(MaxChunks + 1)

(***************************************************************************)
(* embedding_service.py: create_embeddings_batch.  The embeddings API is    *)
(* the environment: a call either raises or answers with one embedding per *)
(* input, in input order.  A vector is kept as a record that tells whose   *)
(* embedding it is and how long it is.                                     *)
(***************************************************************************)
\* line 16: the model the service is built with by default
DefaultModel == "text-embedding-3-small"

\* get_embedding_dimension (lines 91-104): the table of the models' vector
\* lengths, 1536 for a model that is not in it.
get_embedding_dimension ==
    CASE model = "text-embedding-ada-002" -> 1536
      [] model = "text-embedding-3-small" -> 1536
      [] model = "text-embedding-3-large" -> 3072
      [] OTHER -> 1536

\* What the API answers for one text: a vector of the model's length.
Embedding(text) == [zero |-> FALSE, text |-> text, dim |-> get_embedding_dimension]

\* line 87: [0.0] * 1536
ZeroVectorLength == 1536

ZeroVector == [zero |-> TRUE, text |-> "", dim |-> ZeroVectorLength]

\* lines 68-75: the batch call answered; one embedding per item of response.data
RECURSIVE BatchEmbeddings(_)
BatchEmbeddings(batch) ==
    IF batch = <<>> THEN <<>>
    ELSE <<Embedding(Head(batch))>> \o BatchEmbeddings(Tail(batch))

\* A fallback that drops the texts whose single call raised.
RECURSIVE FallbackEmbeddingsSkipFailed(_, _)
FallbackEmbeddingsSkipFailed(batch, pos) ==
    IF batch = <<>> THEN <<>>
    ELSE (IF pos \in item_fails THEN <<>> ELSE <<Embedding(Head(batch))>>)
            \o FallbackEmbeddingsSkipFailed(Tail(batch), pos + 1)

\* lines 80-87: the batch call raised; one create_embedding call per text
\* (lines 31-48, RuntimeError when the API raises), zero vector when it raises.
RECURSIVE FallbackEmbeddings(_, _)
FallbackEmbeddings(batch, pos) ==
    IF batch = <<>> THEN <<>>
    ELSE (IF pos \in item_fails THEN <<ZeroVector>> ELSE <<Embedding(Head(batch))>>)
            \o FallbackEmbeddings(Tail(batch), pos + 1)

\* line 65: batch = texts[i:i + batch_size]
Batch == Slice(texts, batch_i, batch_i + batch_size)

\* One iteration of the loop of line 64 whose batch call answers.
EmbedBatch ==
    /\ epc = "loop"
    /\ batch_i < Len(texts)
    /\ batch_i \notin batch_fails
    /\ embeddings' = embeddings \o BatchEmbeddings(Batch)
    /\ batch_i' = batch_i + batch_size
    /\ UNCHANGED <<model, epc, texts, batch_size, batch_fails, item_fails>>
    /\ UNCHANGED nonEmbedVars

\* One iteration of the loop of line 64 whose batch call raises.
EmbedBatchFallback ==
    /\ epc = "loop"
    /\ batch_i < Len(texts)
    /\ batch_i \in batch_fails
    /\ embeddings' = embeddings \o FallbackEmbeddings(Batch, batch_i)
    /\ batch_i' = batch_i + batch_size
    /\ UNCHANGED <<model, epc, texts, batch_size, batch_fails, item_fails>>
    /\ UNCHANGED nonEmbedVars

\* line 89: the range is exhausted, return embeddings
EmbedReturn ==
    /\ epc = "loop"
    /\ batch_i >= Len(texts)
    /\ epc' = "returned"
    /\ UNCHANGED <<model, texts, batch_size, batch_fails, item_fails, batch_i, embeddings>>
    /\ UNCHANGED nonEmbedVars

MaxTexts == 3

MaxBatchSize == 3

TextChoices == {"x", "y"}

\* The models of the table of get_embedding_dimension and one that is not in it.
Models == {"text-embedding-ada-002", "text-embedding-3-small",
           "text-embedding-3-large", "other-model"}

TextLists == UNION {[1..n -> TextChoices] : n \in 0..MaxTexts}

(***************************************************************************)
(* report_storage.py and database.py: store_report, save_report,          *)
(* save_chunks, delete_report and the two read queries, over the tables    *)
(* reports and report_chunks (InnoDB, report_chunks.report_id a foreign    *)
(* key with ON DELETE CASCADE, database.py lines 65-91).  A connection's   *)
(* writes are invisible until its commit; store_report runs the chunker    *)
(* and the embedding service of the sections above.                        *)
(***************************************************************************)
\* save_report line 124: report_id = str(uuid.uuid4()), an id no row has.
NewReportId == "r1"

\* The id of a report that was stored before.
OldReportId == "r0"

\* ReportChunker() (report_storage.py line 19): the default overlap, below
\* the default chunk size; in tokens, at the scale of MaxChunkTokens.
DefaultOverlapTokens == 1

\* create_embeddings_batch(chunk_texts): batch_size defaults to 100 (line 50
\* of embedding_service.py).
DefaultBatchSize == 100

\* json.dumps / json.loads of an embedding (database.py lines 245, 309)
JsonDumps(v) == [json |-> v]

JsonLoads(j) == j.json

ReportExists(id) == \E r \in reports : r.report_id = id

\* get_report (lines 150-182): the row, or None (NULL here) when there is none.
GetReport(id) ==
    IF ReportExists(id) THEN CHOOSE r \in reports : r.report_id = id ELSE NULL

\* get_chunks_by_report (lines 271-318) for one report_id: its committed rows
\* ORDER BY chunk_index ASC, the embedding column decoded when it is not NULL.
GetChunksByReportId(id) ==
    LET rows == {r \in report_chunks : r.report_id = id}
        Decoded(r) == [report_id |-> r.report_id, chunk_text |-> r.chunk_text,
                       section |-> r.section, chunk_index |-> r.chunk_index,
                       embedding |-> IF r.embedding # NULL
                                     THEN JsonLoads(r.embedding) ELSE NULL]
        RECURSIVE Ordered(_)
        Ordered(rest) ==
            IF rest = {} THEN <<>>
            ELSE LET r == CHOOSE x \in rest : \A y \in rest : x.chunk_index <= y.chunk_index
                 IN  <<Decoded(r)>> \o Ordered(rest \ {r})
    IN  Ordered(rows)

\* A transposed attachment: chunk i gets the vector of the mirrored position.
AttachEmbeddingsMirrored(cs, embs) ==
    [k \in 1..Len(cs) |->
        [chunk_text |-> cs[k].chunk_text, section |-> cs[k].section,
         chunk_index |-> cs[k].chunk_index,
         embedding |-> IF Len(cs) - k < Len(embs) THEN embs[Len(cs) - k + 1] ELSE NULL]]

\* store_report lines 67-68: chunk['embedding'] = embeddings[i] if
\* i < len(embeddings) else None
AttachEmbeddings(cs, embs) ==
    [k \in 1..Len(cs) |->
        [chunk_text |-> cs[k].chunk_text, section |-> cs[k].section,
         chunk_index |-> cs[k].chunk_index,
         embedding |-> IF k - 1 < Len(embs) THEN embs[k] ELSE NULL]]

\* save_chunks lines 244-258: the row inserted for one chunk.
ChunkRow(id, chunk) ==
    [report_id |-> id, chunk_text |-> chunk.chunk_text, section |-> chunk.section,
     chunk_index |-> chunk.chunk_index,
     embedding |-> IF chunk.embedding # NULL THEN JsonDumps(chunk.embedding) ELSE NULL]

\* A rollback that leaves the pending rows in the table.
AfterRollbackKeepsPending(table, pending) == table \cup pending

\* connection.rollback() (line 264): the pending rows are discarded.
AfterRollback(table, pending) == table

\* A delete of the report row alone.
OnDeleteNoCascade(table, id) == table

\* ON DELETE CASCADE (line 87): the chunks of a deleted report go with it.
OnDeleteCascade(table, id) == {r \in table : r.report_id # id}

\* store_report line 49, save_report (lines 124-139): the report row is
\* inserted and committed; then chunk_report is called (line 58).
SaveReport ==
    /\ stpc = "called"
    /\ reports' = reports \cup
          {[report_id |-> NewReportId, report_text |-> st_report_text]}
    /\ stpc' = "chunking"
    /\ cpc' = "called"
    /\ report_text' = st_report_text
    /\ chunk_size' = 0
    /\ overlap' = DefaultOverlapTokens
    /\ preserve_sections' = TRUE
    /\ UNCHANGED <<sections, sec, start, iter, section_chunks, chunks>>
    /\ UNCHANGED <<report_chunks, st_report_text, st_chunks, sk, txn, dpc, del_target>>
    /\ UNCHANGED <<researchVars, searchVars, embedVars, agentVars, poolVars, sessionVars, chatVars>>

\* save_report lines 141-144: the database raises, rollback, RuntimeError.
SaveReportFails ==
    /\ stpc = "called"
    /\ stpc' = "raised_in_save_report"
    /\ UNCHANGED <<reports, report_chunks, st_report_text, st_chunks, sk, txn,
                   dpc, del_target>>
    /\ UNCHANGED <<researchVars, chunkerVars, searchVars, embedVars, agentVars, poolVars, sessionVars, chatVars>>

\* store_report lines 63-64: chunk_report has returned; the chunk texts go
\* to create_embeddings_batch.  Which API calls raise is the environment's.
EmbedChunks ==
    /\ stpc = "chunking"
    /\ cpc = "returned"
    /\ texts' = [k \in 1..Len(chunks) |-> chunks[k].chunk_text]
    /\ batch_size' = DefaultBatchSize
    /\ batch_fails' \in SUBSET {0}
    /\ item_fails' \in SUBSET (0..(Len(chunks) - 1))
    /\ batch_i' = 0
    /\ embeddings' = <<>>
    /\ epc' = "loop"
    /\ stpc' = "embedding"
    /\ UNCHANGED model
    /\ UNCHANGED <<reports, report_chunks, st_report_text, st_chunks, sk, txn,
                   dpc, del_target>>
    /\ UNCHANGED <<researchVars, chunkerVars, searchVars, agentVars, poolVars, sessionVars, chatVars>>

\* store_report lines 67-72 and save_chunks lines 238-241: the embeddings
\* are attached and save_chunks opens its connection.
SaveChunksBegin ==
    /\ stpc = "embedding"
    /\ epc = "returned"
    /\ st_chunks' = AttachEmbeddings(chunks, embeddings)
    /\ sk' = 0
    /\ txn' = {}
    /\ stpc' = "saving"
    /\ UNCHANGED <<reports, report_chunks, st_report_text, dpc, del_target>>
    /\ UNCHANGED <<researchVars, chunkerVars, searchVars, embedVars, agentVars, poolVars, sessionVars, chatVars>>

\* save_chunks lines 243-258: one INSERT; the foreign key asks for the
\* report row.
SaveChunksInsert ==
    /\ stpc = "saving"
    /\ sk < Len(st_chunks)
    /\ ReportExists(NewReportId)
    /\ txn' = txn \cup {ChunkRow(NewReportId, st_chunks[sk + 1])}
    /\ sk' = sk + 1
    /\ UNCHANGED <<reports, report_chunks, stpc, st_report_text, st_chunks,
                   dpc, del_target>>
    /\ UNCHANGED <<researchVars, chunkerVars, searchVars, embedVars, agentVars, poolVars, sessionVars, chatVars>>

\* save_chunks lines 262-265: an INSERT (a foreign-key violation included)
\* or the commit raises Error; rollback, RuntimeError.
SaveChunksFails ==
    /\ stpc = "saving"
    /\ report_chunks' = AfterRollback(report_chunks, txn)
    /\ txn' = {}
    /\ stpc' = "raised_in_save_chunks"
    /\ UNCHANGED <<reports, st_report_text, st_chunks, sk, dpc, del_target>>
    /\ UNCHANGED <<researchVars, chunkerVars, searchVars, embedVars, agentVars, poolVars, sessionVars, chatVars>>

\* save_chunks line 260 and store_report line 76: commit, return report_id.
SaveChunksCommit ==
    /\ stpc = "saving"
    /\ sk = Len(st_chunks)
    /\ report_chunks' = report_chunks \cup txn
    /\ txn' = {}
    /\ stpc' = "returned"
    /\ UNCHANGED <<reports, st_report_text, st_chunks, sk, dpc, del_target>>
    /\ UNCHANGED <<researchVars, chunkerVars, searchVars, embedVars, agentVars, poolVars, sessionVars, chatVars>>

\* delete_report (lines 327-333) of a report the caller knows: DELETE and
\* commit.  The delete waits while an open transaction holds pending chunk
\* rows of that report (the lock their foreign-key check took).
DeleteReport(id) ==
    /\ dpc = "idle"
    /\ ReportExists(id)
    /\ \A r \in txn : r.report_id # id
    /\ reports' = {r \in reports : r.report_id # id}
    /\ report_chunks' = OnDeleteCascade(report_chunks, id)
    /\ dpc' = "done"
    /\ del_target' = id
    /\ UNCHANGED <<stpc, st_report_text, st_chunks, sk, txn>>
    /\ UNCHANGED <<researchVars, chunkerVars, searchVars, embedVars, agentVars, poolVars, sessionVars, chatVars>>

\* delete_report lines 335-338: the database raises, rollback, RuntimeError.
DeleteReportFails(id) ==
    /\ dpc = "idle"
    /\ ReportExists(id)
    /\ dpc' = "raised"
    /\ del_target' = id
    /\ UNCHANGED <<reports, report_chunks, stpc, st_report_text, st_chunks, sk, txn>>
    /\ UNCHANGED <<researchVars, chunkerVars, searchVars, embedVars, agentVars, poolVars, sessionVars, chatVars>>

(***************************************************************************)
(* LLM agent runs: research_subject with _run_specialized_agent_with_retry *)
(* (specialized_agent.py), synthesize_report (synthesis_agent.py) and      *)
(* _get_agent_response with _run_agent_with_retry (agent.py).  The LLM     *)
(* backend is the environment: a Runner.run_sync call answers or raises.   *)
(***************************************************************************)
\* An exception: its status_code attribute (0 when it has none) and what
\* its lower-cased message contains.
Exceptions ==
    { [status_code |-> 429, text |-> "other"],
      [status_code |-> 0,   text |-> "rate limit"],
      [status_code |-> 0,   text |-> "429"],
      [status_code |-> 500, text |-> "other"],
      [status_code |-> 0,   text |-> "other"] }

\* The outcome of a Runner.run_sync call that answered.
RunOk == [status_code |-> 200, text |-> "ok"]

\* _is_rate_limit_error (specialized_agent.py lines 281-287, agent.py
\* lines 411-417)
IsRateLimitError(exc) ==
    IF exc.status_code = 429 THEN TRUE
    ELSE exc.text = "rate limit" \/ exc.text = "429"

\* The exception of a step outside the agent run (formatting the prompt,
\* constructing the Agent).
PrepareError == [status_code |-> 0, text |-> "other"]

\* lines 318-320: RuntimeError("Unknown error in ...")
UnknownError == [status_code |-> 0, text |-> "other"]

\* The components that run an LLM agent.
Components == {"specialized", "synthesis", "main"}

\* The components whose run goes through a retry loop: research_subject
\* calls _run_specialized_agent_with_retry (line 193), _get_agent_response
\* calls _run_agent_with_retry (agent.py line 257); synthesize_report calls
\* Runner.run_sync itself (line 84).
RetryComponents == {"specialized", "main"}

NoError == "no error key"

\* research_subject lines 258-265
ResearchResult(subject) ==
    [subject_id |-> subject, research_output |-> "final_output",
     sources |-> <<"tool_invocations">>, error |-> NoError]

\* research_subject lines 267-278
ResearchErrorResult(subject, e) ==
    [subject_id |-> subject,
     research_output |-> <<"Error in specialized research", e>>,
     sources |-> <<>>, error |-> e]

\* What the component returns when its agent run answered:
\* research_subject lines 258-265, synthesize_report line 100,
\* _get_agent_response line 281.
SuccessValue ==
    CASE acomp = "specialized" -> [returned |-> ResearchResult(a_subject)]
      [] acomp = "synthesis" -> [returned |-> "final_output"]
      [] OTHER -> [returned |-> "final_output"]

\* What the component does with an exception of its try block: the
\* "except Exception" of research_subject (lines 267-278), synthesize_report
\* (lines 102-105) and _get_agent_response (agent.py lines 283-286).
HandledValue(e) ==
    CASE acomp = "specialized" -> [returned |-> ResearchErrorResult(a_subject, e)]
      [] acomp = "synthesis" -> [returned |-> <<"Error synthesizing report", e>>]
      [] OTHER -> [returned |-> <<"Error generating response", e>>]

\* An exception outside every try block reaches the caller.
RaisedValue(e) == [raised |-> e]

\* A last-attempt test that never holds.
IsLastAttemptNever(n) == FALSE

\* line 308: is_last_attempt = attempt == max_retries - 1
IsLastAttempt(n) == n = max_retries - 1

\* line 311: delay = base_delay * (2**attempt)
Delay(n) == base_delay * (2 ^ n)

\* The steps before the try block answered: research_subject lines 160-177
\* (instructions, prompt, Agent), synthesize_report lines 55-72 (prompt,
\* Agent); _get_agent_response has these steps inside its try (lines 209-255).
\* The retry loop starts with attempt 0 (lines 298-302).
Prepare ==
    /\ apc = "called"
    /\ apc' = IF acomp \in RetryComponents THEN "retry_loop" ELSE "run_once"
    /\ attempt' = 0
    /\ UNCHANGED <<acomp, a_subject, max_retries, base_delay, llm_outcomes,
                   sleeps, agent_result>>
    /\ UNCHANGED nonAgentVars

\* One of those steps raises: outside the try block of research_subject and
\* synthesize_report the exception leaves the function; inside the try
\* block of _get_agent_response it is handled.
PrepareRaises ==
    /\ apc = "called"
    /\ IF acomp = "main"
       THEN /\ apc' = "returned"
            /\ agent_result' = HandledValue(PrepareError)
       ELSE /\ apc' = "raised"
            /\ agent_result' = RaisedValue(PrepareError)
    /\ UNCHANGED <<acomp, a_subject, max_retries, base_delay, attempt,
                   llm_outcomes, sleeps>>
    /\ UNCHANGED nonAgentVars

\* lines 302-304: an attempt whose Runner.run_sync call answers.
AttemptSucceeds ==
    /\ apc = "retry_loop"
    /\ attempt < max_retries
    /\ llm_outcomes' = Append(llm_outcomes, RunOk)
    /\ apc' = "returned"
    /\ agent_result' = SuccessValue
    /\ UNCHANGED <<acomp, a_subject, max_retries, base_delay, attempt, sleeps>>
    /\ UNCHANGED nonAgentVars

\* lines 305-316: an attempt whose Runner.run_sync call raises exc: re-raised
\* (and handled by the caller's except) unless it is a rate-limit error of
\* an attempt that is not the last; else sleep and go round.
AttemptFails(exc) ==
    /\ apc = "retry_loop"
    /\ attempt < max_retries
    /\ llm_outcomes' = Append(llm_outcomes, exc)
    /\ IF ~IsRateLimitError(exc) \/ IsLastAttempt(attempt)
       THEN /\ apc' = "returned"
            /\ agent_result' = HandledValue(exc)
            /\ UNCHANGED <<attempt, sleeps>>
       ELSE /\ sleeps' = Append(sleeps, Delay(attempt))
            /\ attempt' = attempt + 1
            /\ UNCHANGED <<apc, agent_result>>
    /\ UNCHANGED <<acomp, a_subject, max_retries, base_delay>>
    /\ UNCHANGED nonAgentVars

\* lines 318-320: the range is exhausted; last_exc is raised, or
\* RuntimeError when no attempt was made.
RangeExhausted ==
    /\ apc = "retry_loop"
    /\ attempt >= max_retries
    /\ apc' = "returned"
    /\ agent_result' = HandledValue(IF llm_outcomes # <<>>
                                    THEN llm_outcomes[Len(llm_outcomes)]
                                    ELSE UnknownError)
    /\ UNCHANGED <<acomp, a_subject, max_retries, base_delay, attempt,
                   llm_outcomes, sleeps>>
    /\ UNCHANGED nonAgentVars

\* synthesize_report lines 83-100: the one Runner.run_sync call answers.
SynthesisRunSucceeds ==
    /\ apc = "run_once"
    /\ llm_outcomes' = Append(llm_outcomes, RunOk)
    /\ apc' = "returned"
    /\ agent_result' = SuccessValue
    /\ UNCHANGED <<acomp, a_subject, max_retries, base_delay, attempt, sleeps>>
    /\ UNCHANGED nonAgentVars

\* synthesize_report lines 83-88 and 102-105: the call raises, the error
\* string is returned.
SynthesisRunFails(exc) ==
    /\ apc = "run_once"
    /\ llm_outcomes' = Append(llm_outcomes, exc)
    /\ apc' = "returned"
    /\ agent_result' = HandledValue(exc)
    /\ UNCHANGED <<acomp, a_subject, max_retries, base_delay, attempt, sleeps>>
    /\ UNCHANGED nonAgentVars

\* Largest AGENT_RATE_LIMIT_MAX_RETRIES (the default is 3).
MaxRetriesBound == 3

\* AGENT_RATE_LIMIT_BACKOFF_SECONDS: 1 and the default 2
BaseDelays == {1, 2}

(***************************************************************************)
(* report_chat_agent.py: chat_with_report and answer_question.  The        *)
(* question is embedded (create_embedding), the report's chunks are        *)
(* searched (search_chunks above, with its default min_score and           *)
(* answer_question's default top_k), and the LLM is run on what was found. *)
(***************************************************************************)
\* answer_question: top_k: int = 5 (line 40)
DefaultTopK == 5

\* line 65
NotFoundAnswer == "I couldn't find relevant information in the report"

\* An always-true test of the retrieved chunks.
HasRelevantChunksAlways(relevant_chunks) == TRUE

\* line 64: "if not relevant_chunks" is the negation of this
HasRelevantChunks(relevant_chunks) == relevant_chunks # <<>>

\* A history update that records the answer alone.
AppendTurnAnswerOnly(history, q, a) ==
    history \o <<[role |-> "assistant", content |-> a]>>

\* lines 207-208
AppendTurn(history, q, a) ==
    history \o <<[role |-> "user", content |-> q],
                 [role |-> "assistant", content |-> a]>>

Questions == {"q1", "q2"}

\* chat_with_report calls followed.
MaxTurns == 2

\* Chunks of the report the chat is about.
MaxChatChunks == 2

\* chat_with_report lines 196-203: the history is emptied when
\* reset_history is set, then answer_question is entered.
ChatCall ==
    /\ chpc \in {"idle", "returned", "raised"}
    /\ turns < MaxTurns
    /\ turns' = turns + 1
    /\ question' \in Questions
    /\ reset_history' \in BOOLEAN
    /\ history_before' = conversation_history
    /\ conversation_history' = IF reset_history' THEN <<>> ELSE conversation_history
    /\ llm_calls' = 0
    /\ ch_answer' = ""
    /\ chpc' = "embedding"
    /\ UNCHANGED <<researchVars, chunkerVars, searchVars, embedVars, storeVars, agentVars, poolVars, sessionVars>>

\* answer_question lines 55-61: create_embedding answered; search_chunks is
\* called with the question's embedding.
CreateEmbedding ==
    /\ chpc = "embedding"
    /\ query_embedding' \in Vectors
    /\ top_k' = DefaultTopK
    /\ min_score' = DefaultMinScore
    /\ search_results' = <<>>
    /\ spc' = "called"
    /\ chpc' = "searching"
    /\ UNCHANGED db_chunks
    /\ UNCHANGED <<conversation_history, question, reset_history, history_before,
                   llm_calls, ch_answer, turns>>
    /\ UNCHANGED <<researchVars, chunkerVars, embedVars, storeVars, agentVars, poolVars, sessionVars>>

\* line 55: create_embedding raises RuntimeError (embedding_service.py line
\* 48); nothing catches it in answer_question or chat_with_report.
CreateEmbeddingRaises ==
    /\ chpc = "embedding"
    /\ chpc' = "raised"
    /\ UNCHANGED <<conversation_history, question, reset_history, history_before,
                   llm_calls, ch_answer, turns>>
    /\ UNCHANGED <<researchVars, chunkerVars, searchVars, embedVars, storeVars, agentVars, poolVars, sessionVars>>

\* lines 58-62: search_chunks raises (get_chunks_by_report's RuntimeError).
RetrievalRaises ==
    /\ chpc = "searching"
    /\ spc = "called"
    /\ spc' = "raised"
    /\ chpc' = "raised"
    /\ UNCHANGED <<db_chunks, query_embedding, top_k, min_score, search_results>>
    /\ UNCHANGED <<conversation_history, question, reset_history, history_before,
                   llm_calls, ch_answer, turns>>
    /\ UNCHANGED <<researchVars, chunkerVars, embedVars, storeVars, agentVars, poolVars, sessionVars>>

\* lines 64-65 and 207-210: nothing was retrieved; the fixed answer is
\* returned and the turn is appended.
AnswerNotFound ==
    /\ chpc = "searching"
    /\ spc = "returned"
    /\ ~HasRelevantChunks(search_results)
    /\ ch_answer' = NotFoundAnswer
    /\ conversation_history' = AppendTurn(conversation_history, question, NotFoundAnswer)
    /\ chpc' = "returned"
    /\ UNCHANGED <<question, reset_history, history_before, llm_calls, turns>>
    /\ UNCHANGED <<researchVars, chunkerVars, searchVars, embedVars, storeVars, agentVars, poolVars, sessionVars>>

\* lines 67-104 and 207-210: the prompt is built, Runner.run_sync answers;
\* its output is returned and the turn is appended.
AnswerFromLLM ==
    /\ chpc = "searching"
    /\ spc = "returned"
    /\ HasRelevantChunks(search_results)
    /\ llm_calls' = llm_calls + 1
    /\ ch_answer' = "final_output"
    /\ conversation_history' = AppendTurn(conversation_history, question, "final_output")
    /\ chpc' = "returned"
    /\ UNCHANGED <<question, reset_history, history_before, turns>>
    /\ UNCHANGED <<researchVars, chunkerVars, searchVars, embedVars, storeVars, agentVars, poolVars, sessionVars>>

\* lines 67-92, 106-109 and 207-210: Runner.run_sync raises; the error
\* message is returned and the turn is appended.
AnswerLLMError ==
    /\ chpc = "searching"
    /\ spc = "returned"
    /\ HasRelevantChunks(search_results)
    /\ llm_calls' = llm_calls + 1
    /\ ch_answer' = "Error generating answer"
    /\ conversation_history' =
          AppendTurn(conversation_history, question, "Error generating answer")
    /\ chpc' = "returned"
    /\ UNCHANGED <<question, reset_history, history_before, turns>>
    /\ UNCHANGED <<researchVars, chunkerVars, searchVars, embedVars, storeVars, agentVars, poolVars, sessionVars>>

(***************************************************************************)
(* database.py: every DatabaseManager operation has the same frame:       *)
(*     connection = None                                                   *)
(*     try:     connection = self.get_connection(); ...; commit / return   *)
(*     except Error: [rollback]; raise RuntimeError                        *)
(*     finally: if connection and connection.is_connected():               *)
(*                  cursor.close(); connection.close()                     *)
(* connection.close() is what puts a pooled connection back in the pool.   *)
(***************************************************************************)
\* 'pool_size': 5 (line 29)
PoolSize == 5

DbOperations == {"save_report", "get_report", "get_reports_by_ticker", "save_chunks",
                 "get_chunks_by_report", "delete_report"}

\* Operations followed.
MaxDbOps == 6

\* The finally block (lines 145-148, 179-182, 217-220, 266-269, 315-318,
\* 339-342): the connection goes back to the pool only when
\* connection.is_connected() holds.
FinallyClose(is_connected, available) ==
    IF is_connected THEN available + 1 ELSE available

\* self.get_connection() (lines 49-54) at the head of an operation: a
\* connection is taken from the pool, or RuntimeError is raised when the
\* pool has none; then connection is still None and the finally block does
\* nothing.
GetConnection(op) ==
    /\ dbpc = "idle"
    /\ db_ops < MaxDbOps
    /\ db_ops' = db_ops + 1
    /\ db_op' = op
    /\ IF pool_available > 0
       THEN /\ pool_available' = pool_available - 1
            /\ dbpc' = "acquired"
            /\ db_result' = "none"
       ELSE /\ pool_available' = pool_available
            /\ dbpc' = "idle"
            /\ db_result' = "raised"
    /\ UNCHANGED nonPoolVars

\* The statements run, the work is committed or the rows returned; the
\* finally block closes the connection.
OperationReturns ==
    /\ dbpc = "acquired"
    /\ pool_available' = FinallyClose(TRUE, pool_available)
    /\ db_result' = "returned"
    /\ dbpc' = "idle"
    /\ UNCHANGED <<db_op, db_ops>>
    /\ UNCHANGED nonPoolVars

\* A statement raises Error on a connection that stays up: rollback (in the
\* writing operations), RuntimeError; the finally block closes the
\* connection.
QueryError ==
    /\ dbpc = "acquired"
    /\ pool_available' = FinallyClose(TRUE, pool_available)
    /\ db_result' = "raised"
    /\ dbpc' = "idle"
    /\ UNCHANGED <<db_op, db_ops>>
    /\ UNCHANGED nonPoolVars

\* The connection is lost during the operation: the statement raises Error,
\* and in the finally block connection.is_connected() is False.
ConnectionLost ==
    /\ dbpc = "acquired"
    /\ pool_available' = FinallyClose(FALSE, pool_available)
    /\ db_result' = "raised"
    /\ dbpc' = "idle"
    /\ UNCHANGED <<db_op, db_ops>>
    /\ UNCHANGED nonPoolVars

(***************************************************************************)
(* agent.py: StockResearchAgent.                                          *)
(***************************************************************************)
None == "None"

\* The collaborators of generate_report, none of them called.
NotCalled == [research |-> "not_called", synthesis |-> "not_called",
              store |-> "not_called", store_calls |-> 0]

\* "if not self.current_ticker", "if not self.current_report_id" (lines
\* 323, 394) are the negation of this: None and the empty string are falsy.
TruthyAlways(x) == TRUE

Truthy(x) == x \notin {None, ""}

\* ticker.upper() (line 151)
Upper(ticker) == IF ticker = "aapl" THEN "AAPL" ELSE ticker

Tickers == {"aapl", ""}

TradeTypes == {"Investment"}

\* Message contents are kept as sequences, one element per character.
\* ORCHESTRATOR_MAX_HISTORY_MESSAGES (line 31, default "4")
ORCHESTRATOR_MAX_HISTORY_MESSAGES == 4

\* ORCHESTRATOR_MAX_MESSAGE_CHARS (line 34), scaled down.
ORCHESTRATOR_MAX_MESSAGE_CHARS == 2

\* History entries a conversation is followed for.
MaxOrchHistory == 6

\* line 155: the instructions built from ticker and trade type
SystemInstructions(ticker, trade_type) == <<"instructions", ticker, trade_type>>

\* line 158: the initial user message
InitialUserMessage(ticker, trade_type) == <<ticker, trade_type>>

UserResponses == { <<"y">>, <<"y", "e", "s">> }

\* What the orchestrator run yields: the assistant's message, or an error.
AssistantReplies == { <<"o">>, <<"o", "k", "!">> }

LLMError == <<"Error generating response">>

\* s[-n:]
LastN(seq, n) ==
    IF Len(seq) <= n THEN seq ELSE SubSeq(seq, Len(seq) - n + 1, Len(seq))

\* lines 218-219 and 227-228
Truncate(content) ==
    IF Len(content) > ORCHESTRATOR_MAX_MESSAGE_CHARS
    THEN SubSeq(content, 1, ORCHESTRATOR_MAX_MESSAGE_CHARS) \o <<"... [truncated]">>
    ELSE content

\* lines 211-232: the messages built from the history and the current user
\* message.
BuildMessages(history, user_message) ==
    LET recent_history == LastN(history, ORCHESTRATOR_MAX_HISTORY_MESSAGES)
        NonSystem(msg) == msg.role # "system"
        kept == SelectSeq(recent_history, NonSystem)
    IN  [k \in 1..Len(kept) |->
            [role |-> kept[k].role, content |-> Truncate(kept[k].content)]]
        \o <<[role |-> "user", content |-> Truncate(user_message)]>>

\* line 259: "messages if len(messages) > 1 else current_content"
RunnerInput(messages) ==
    IF Len(messages) > 1 THEN messages ELSE messages[1].content

\* _get_agent_response (lines 195-286) on the history as it is when the
\* response is asked for: what is sent, and the history afterwards.
HistoryAfterResponse(history, reply) ==
    IF reply = LLMError THEN history
    ELSE Append(history, [role |-> "assistant", content |-> reply])

\* llm_messages and llm_result, gr_steps, gr_return and tool_status, and
\* chat_reached, question, ch_answer and rag_prompt_report_ids describe the
\* last operation: an operation of another kind clears them.
NoRunResult == llm_messages' = <<>> /\ llm_result' = "none"

NoGenerateResult == gr_steps' = NotCalled /\ gr_return' = None /\ tool_status' = None

NoChatResult ==
    /\ chat_reached' = FALSE
    /\ question' = ""
    /\ ch_answer' = ""
    /\ rag_prompt_report_ids' = <<>>

ChatAgentUnchanged ==
    UNCHANGED <<chpc, conversation_history, reset_history, history_before,
                llm_calls, turns, history_report_ids>>

\* start_research (lines 140-169)
StartResearch(ticker, trade_type, reply) ==
    /\ current_ticker' = Upper(ticker)
    /\ current_trade_type' = trade_type
    /\ LET system_instructions == SystemInstructions(ticker, trade_type)
           user_message == InitialUserMessage(ticker, trade_type)
           history == <<[role |-> "system", content |-> system_instructions],
                        [role |-> "user", content |-> user_message]>>
       IN  /\ llm_messages' = RunnerInput(BuildMessages(history, user_message))
           /\ orch_history' = HistoryAfterResponse(history, reply)
    /\ llm_result' = IF reply = LLMError THEN "error" ELSE "ok"
    /\ last_op' = "start_research"
    /\ NoGenerateResult
    /\ NoChatResult
    /\ ChatAgentUnchanged
    /\ UNCHANGED <<current_report_id, last_report_text, stored_reports>>
    /\ UNCHANGED <<researchVars, chunkerVars, searchVars, embedVars, storeVars,
                   agentVars, poolVars>>

\* continue_conversation (lines 171-193)
ContinueConversation(user_response, reply) ==
    /\ Len(orch_history) + 2 <= MaxOrchHistory
    /\ LET history == Append(orch_history, [role |-> "user", content |-> user_response])
       IN  /\ llm_messages' = RunnerInput(BuildMessages(history, user_response))
           /\ orch_history' = HistoryAfterResponse(history, reply)
    /\ llm_result' = IF reply = LLMError THEN "error" ELSE "ok"
    /\ last_op' = "continue_conversation"
    /\ NoGenerateResult
    /\ NoChatResult
    /\ ChatAgentUnchanged
    /\ UNCHANGED <<current_ticker, current_trade_type, current_report_id,
                   last_report_text, stored_reports>>
    /\ UNCHANGED <<researchVars, chunkerVars, searchVars, embedVars, storeVars,
                   agentVars, poolVars>>

\* Texts generate_report may return.
ReportText == "report"

\* synthesis_agent.py line 103
SynthesisErrorText == "Error synthesizing report"

\* line 324
NoSessionError == "Error: No active research session"

\* line 380
GenerateReportError == "Error generating report"

\* line 395
NoReportError == "Error: No report available"

\* line 117
ToolSuccess == "Report generated successfully"

ErrorMessages == {SynthesisErrorText, NoSessionError, GenerateReportError, NoReportError}

\* Reports stored.
MaxReports == 2

\* str(uuid.uuid4()) (database.py line 124): an id no stored report has.
FreshReportId ==
    CHOOSE id \in {"r1", "r2", "r3", "r4"} : \A r \in stored_reports : r.report_id # id

SynthesisOutcomes == {"ok", "error_string", "raised"}

StoreOutcomes == {"ok", "raised_in_save_report", "raised_after_save_report"}

\* generate_report (lines 313-382).  run_parallel_research returns a result
\* for every subject; synthesize_report returns the report, returns its
\* error string (synthesis_agent.py lines 102-105) or raises; store_report
\* returns the new id, or raises before or after the report row is
\* committed (report_storage.py lines 49-72).
GenerateReportBody(synthesis, store) ==
    IF ~(Truthy(current_ticker) /\ Truthy(current_trade_type))
    THEN /\ gr_return' = NoSessionError
         /\ gr_steps' = NotCalled
         /\ UNCHANGED <<stored_reports, current_report_id>>
    ELSE IF synthesis = "raised"
    THEN /\ gr_return' = GenerateReportError
         /\ gr_steps' = [research |-> "ok", synthesis |-> "raised",
                         store |-> "not_called", store_calls |-> 0]
         /\ UNCHANGED <<stored_reports, current_report_id>>
    ELSE LET synthesized == IF synthesis = "ok" THEN ReportText ELSE SynthesisErrorText
             report_id == FreshReportId
         IN  /\ gr_steps' = [research |-> "ok", synthesis |-> synthesis,
                             store |-> store, store_calls |-> 1]
             /\ CASE store = "ok" ->
                       /\ stored_reports' = stored_reports \cup
                             {[report_id |-> report_id, report_text |-> synthesized,
                               chunks |-> TRUE]}
                       /\ current_report_id' = report_id
                       /\ gr_return' = synthesized
                  [] store = "raised_in_save_report" ->
                       /\ gr_return' = GenerateReportError
                       /\ UNCHANGED <<stored_reports, current_report_id>>
                  [] store = "raised_after_save_report" ->
                       /\ stored_reports' = stored_reports \cup
                             {[report_id |-> report_id, report_text |-> synthesized,
                               chunks |-> FALSE]}
                       /\ gr_return' = GenerateReportError
                       /\ UNCHANGED current_report_id

\* generate_report called by the application (app.py line 290).
GenerateReport(synthesis, store) ==
    /\ Cardinality(stored_reports) < MaxReports
    /\ GenerateReportBody(synthesis, store)
    /\ tool_status' = None
    /\ last_op' = "generate_report"
    /\ NoRunResult
    /\ NoChatResult
    /\ ChatAgentUnchanged
    /\ UNCHANGED <<current_ticker, current_trade_type, last_report_text, orch_history>>
    /\ UNCHANGED <<researchVars, chunkerVars, searchVars, embedVars, storeVars,
                   agentVars, poolVars>>

\* generate_report_tool_function (lines 92-119), invoked by the orchestrator
\* run: generate_report catches every exception itself, so the except branch
\* at line 118 is not taken and the tool answers with the success message.
GenerateReportTool(synthesis, store) ==
    /\ Cardinality(stored_reports) < MaxReports
    /\ GenerateReportBody(synthesis, store)
    /\ last_report_text' = gr_return'
    /\ tool_status' = ToolSuccess
    /\ last_op' = "generate_report_tool"
    /\ NoRunResult
    /\ NoChatResult
    /\ ChatAgentUnchanged
    /\ UNCHANGED <<current_ticker, current_trade_type, orch_history>>
    /\ UNCHANGED <<researchVars, chunkerVars, searchVars, embedVars, storeVars,
                   agentVars, poolVars>>

\* The application selects a stored report for the chat
\* (gradio_app.py line 175, app.py line 329).
SelectReport(id) ==
    /\ \E r \in stored_reports : r.report_id = id
    /\ current_report_id # id
    /\ current_report_id' = id
    /\ last_op' = "select_report"
    /\ NoRunResult
    /\ NoGenerateResult
    /\ NoChatResult
    /\ ChatAgentUnchanged
    /\ UNCHANGED <<current_ticker, current_trade_type, last_report_text, orch_history,
                   stored_reports>>
    /\ UNCHANGED <<researchVars, chunkerVars, searchVars, embedVars, storeVars,
                   agentVars, poolVars>>

\* answer_question raises (the search failed) or returns the LLM's answer;
\* its other kinds of answer are followed in SpecChat.
ChatOutcomes == {"raised", "llm_ok"}

\* Turns of one chat followed.
MaxSessionTurns == 2

\* StockResearchAgent.chat_with_report (lines 384-400) and, through it,
\* ReportChatAgent.chat_with_report with reset_history left False
\* (report_chat_agent.py lines 179-210): the RAG prompt carries the last
\* three history entries (line 167), and the turn is appended when
\* answer_question returns.
ChatWithReport(q, outcome) ==
    /\ Len(conversation_history) < 2 * MaxSessionTurns
    /\ last_op' = "chat_with_report"
    /\ question' = q
    /\ IF ~Truthy(current_report_id)
       THEN /\ chat_reached' = FALSE
            /\ ch_answer' = NoReportError
            /\ rag_prompt_report_ids' = <<>>
            /\ UNCHANGED <<conversation_history, history_report_ids>>
       ELSE /\ chat_reached' = TRUE
            /\ rag_prompt_report_ids' =
                  IF outcome = "llm_ok"
                  THEN LastN(history_report_ids, 3) ELSE <<>>
            /\ IF outcome = "raised"
               THEN /\ ch_answer' = ""
                    /\ UNCHANGED <<conversation_history, history_report_ids>>
               ELSE LET answer == "final_output"
                    IN  /\ ch_answer' = answer
                        /\ conversation_history' =
                              AppendTurn(conversation_history, q, answer)
                        /\ history_report_ids' = history_report_ids \o
                              <<current_report_id, current_report_id>>
    /\ NoRunResult
    /\ NoGenerateResult
    /\ UNCHANGED <<chpc, reset_history, history_before, llm_calls, turns>>
    /\ UNCHANGED <<current_ticker, current_trade_type, current_report_id,
                   last_report_text, orch_history, stored_reports>>
    /\ UNCHANGED <<researchVars, chunkerVars, searchVars, embedVars, storeVars,
                   agentVars, poolVars>>

\* reset_conversation (lines 402-408) with ReportChatAgent.reset_conversation
\* (report_chat_agent.py lines 212-214)
ResetConversation ==
    /\ last_op # "reset_conversation"
    /\ orch_history' = <<>>
    /\ current_ticker' = None
    /\ current_trade_type' = None
    /\ current_report_id' = None
    /\ conversation_history' = <<>>
    /\ history_report_ids' = <<>>
    /\ last_op' = "reset_conversation"
    /\ NoRunResult
    /\ NoGenerateResult
    /\ NoChatResult
    /\ UNCHANGED <<chpc, reset_history, history_before, llm_calls, turns>>
    /\ UNCHANGED <<last_report_text, stored_reports>>
    /\ UNCHANGED <<researchVars, chunkerVars, searchVars, embedVars, storeVars,
                   agentVars, poolVars>>

(***************************************************************************)
(* Specifications: one per component.  A component that a specification  *)
(* does not run stays idle.                                                *)
(***************************************************************************)
\* max_workers: serial, fewer workers than subjects, the default (one per subject).
MaxWorkersChoices == {1, 2, NumSubjects}

ResearchIdle ==
    /\ rpc = "idle"
    /\ max_workers = 0
    /\ taskState = [s \in SubjectIds |-> "none"]
    /\ yielded = {}
    /\ results = <<>>
    /\ prompt_subjects = <<>>

ChunkerIdle ==
    /\ cpc = "idle"
    /\ report_text = <<>>
    /\ chunk_size = 0
    /\ overlap = 0
    /\ preserve_sections = FALSE
    /\ sections = <<>>
    /\ sec = 0
    /\ start = 0
    /\ iter = 0
    /\ section_chunks = <<>>
    /\ chunks = <<>>

SearchIdle ==
    /\ spc = "idle"
    /\ db_chunks = <<>>
    /\ query_embedding = <<0, 0>>
    /\ top_k = 0
    /\ min_score = DefaultMinScore
    /\ search_results = <<>>

EmbedIdle ==
    /\ model = DefaultModel
    /\ epc = "idle"
    /\ texts = <<>>
    /\ batch_size = 1
    /\ batch_fails = {}
    /\ item_fails = {}
    /\ batch_i = 0
    /\ embeddings = <<>>

StoreIdle ==
    /\ reports = {}
    /\ report_chunks = {}
    /\ stpc = "idle"
    /\ st_report_text = <<>>
    /\ st_chunks = <<>>
    /\ sk = 0
    /\ txn = {}
    /\ dpc = "idle"
    /\ del_target = ""

ChatIdle ==
    /\ chpc = "idle"
    /\ conversation_history = <<>>
    /\ question = ""
    /\ reset_history = FALSE
    /\ history_before = <<>>
    /\ llm_calls = 0
    /\ ch_answer = ""
    /\ turns = 0

DbIdle ==
    /\ dbpc = "idle"
    /\ db_op = ""
    /\ pool_available = PoolSize
    /\ db_result = "none"
    /\ db_ops = 0

\* StockResearchAgent.__init__ (agent.py lines 56-66)
SessionIdle ==
    /\ current_ticker = None
    /\ current_trade_type = None
    /\ current_report_id = None
    /\ last_report_text = None
    /\ orch_history = <<>>
    /\ last_op = "init"
    /\ llm_messages = <<>>
    /\ llm_result = "none"
    /\ gr_steps = NotCalled
    /\ gr_return = None
    /\ tool_status = None
    /\ stored_reports = {}
    /\ chat_reached = FALSE
    /\ history_report_ids = <<>>
    /\ rag_prompt_report_ids = <<>>

AgentIdle ==
    /\ acomp = "specialized"
    /\ apc = "idle"
    /\ a_subject = get_research_subjects[1]
    /\ max_retries = 0
    /\ base_delay = 1
    /\ attempt = 0
    /\ llm_outcomes = <<>>
    /\ sleeps = <<>>
    /\ agent_result = <<>>

InitResearch ==
    /\ ChatIdle
    /\ DbIdle
    /\ SessionIdle
    /\ ChunkerIdle
    /\ SearchIdle
    /\ EmbedIdle
    /\ StoreIdle
    /\ AgentIdle
    /\ rpc = "called"
    /\ max_workers \in MaxWorkersChoices
    /\ taskState = [s \in SubjectIds |-> "none"]
    /\ yielded = {}
    /\ results = <<>>
    /\ prompt_subjects = <<>>

NextResearch ==
    \/ Dispatch
    \/ \E s \in SubjectIds : TaskStart(s)
    \/ \E s \in SubjectIds : TaskReturn(s)
    \/ \E s \in SubjectIds : TaskRaise(s)
    \/ \E s \in SubjectIds : Collect(s)
    \/ Return
    \/ Synthesize

SpecResearch == InitResearch /\ [][NextResearch]_vars

InitChunker ==
    /\ ChatIdle
    /\ DbIdle
    /\ SessionIdle
    /\ AgentIdle
    /\ ResearchIdle
    /\ SearchIdle
    /\ EmbedIdle
    /\ StoreIdle
    /\ cpc = "called"
    /\ report_text \in Texts
    /\ chunk_size \in 0..(MaxChunkTokens - 1)
    /\ overlap \in 0..MaxOverlapTokens
    /\ preserve_sections \in BOOLEAN
    /\ sections = <<>>
    /\ sec = 0
    /\ start = 0
    /\ iter = 0
    /\ section_chunks = <<>>
    /\ chunks = <<>>

NextChunker ==
    \/ ChunkReport
    \/ ChunkTextShort
    \/ ChunkTextLong
    \/ WindowStep
    \/ AssignChunkIndices

SpecChunker == InitChunker /\ [][NextChunker]_vars

InitSearch ==
    /\ ChatIdle
    /\ DbIdle
    /\ SessionIdle
    /\ AgentIdle
    /\ ResearchIdle
    /\ ChunkerIdle
    /\ EmbedIdle
    /\ StoreIdle
    /\ spc = "called"
    /\ \E n \in 0..MaxChunks : db_chunks \in [0..(n - 1) -> Vectors \cup {NULL}]
    /\ query_embedding \in Vectors
    /\ top_k \in TopKs
    /\ min_score \in MinScores
    /\ search_results = <<>>

NextSearch == SearchChunks

SpecSearch == InitSearch /\ [][NextSearch]_vars

\* create_embeddings_batch has been called (line 61: embeddings = []) and is
\* at the head of its loop; the calls that will raise are the environment's.
InitEmbed ==
    /\ ChatIdle
    /\ DbIdle
    /\ SessionIdle
    /\ AgentIdle
    /\ ResearchIdle
    /\ ChunkerIdle
    /\ SearchIdle
    /\ StoreIdle
    /\ model \in Models
    /\ epc = "loop"
    /\ texts \in TextLists
    /\ batch_size \in 1..MaxBatchSize
    /\ batch_fails \in SUBSET (0..(MaxTexts - 1))
    /\ item_fails \in SUBSET (0..(MaxTexts - 1))
    /\ batch_i = 0
    /\ embeddings = <<>>

NextEmbed == EmbedBatch \/ EmbedBatchFallback \/ EmbedReturn

SpecEmbed == InitEmbed /\ [][NextEmbed]_vars

\* Report texts store_report is called with: the empty text and each
\* fragment three times over (longer than one chunk).
StoreTexts == {<<>>} \cup {Concat(<<seg, seg, seg>>) : seg \in Segments}

\* The tables hold a report that was stored before (the empty text: one
\* chunk, whose embedding calls failed); store_report has been called and
\* delete_report may be called at any moment.
InitStore ==
    /\ ChatIdle
    /\ DbIdle
    /\ SessionIdle
    /\ AgentIdle
    /\ ResearchIdle
    /\ ChunkerIdle
    /\ SearchIdle
    /\ EmbedIdle
    /\ reports = {[report_id |-> OldReportId, report_text |-> <<>>]}
    /\ report_chunks =
          {ChunkRow(OldReportId, [chunk_text |-> <<>>, section |-> Introduction,
                                  chunk_index |-> 0, embedding |-> ZeroVector])}
    /\ stpc = "called"
    /\ st_report_text \in StoreTexts
    /\ st_chunks = <<>>
    /\ sk = 0
    /\ txn = {}
    /\ dpc = "idle"
    /\ del_target = ""

NextStore ==
    \/ SaveReport
    \/ SaveReportFails
    \/ NextChunker
    \/ EmbedChunks
    \/ NextEmbed
    \/ SaveChunksBegin
    \/ SaveChunksInsert
    \/ SaveChunksFails
    \/ SaveChunksCommit
    \/ \E id \in {OldReportId, NewReportId} : DeleteReport(id) \/ DeleteReportFails(id)

SpecStore == InitStore /\ [][NextStore]_vars

\* One call of research_subject, synthesize_report or _get_agent_response.
InitAgent ==
    /\ ChatIdle
    /\ DbIdle
    /\ SessionIdle
    /\ ResearchIdle
    /\ ChunkerIdle
    /\ SearchIdle
    /\ EmbedIdle
    /\ StoreIdle
    /\ acomp \in Components
    /\ apc = "called"
    /\ a_subject \in {get_research_subjects[1], get_research_subjects[NumSubjects]}
    /\ max_retries \in 0..MaxRetriesBound
    /\ base_delay \in BaseDelays
    /\ attempt = 0
    /\ llm_outcomes = <<>>
    /\ sleeps = <<>>
    /\ agent_result = <<>>

NextAgent ==
    \/ Prepare
    \/ PrepareRaises
    \/ AttemptSucceeds
    \/ \E exc \in Exceptions : AttemptFails(exc)
    \/ RangeExhausted
    \/ SynthesisRunSucceeds
    \/ \E exc \in Exceptions : SynthesisRunFails(exc)

SpecAgent == InitAgent /\ [][NextAgent]_vars

\* A new ReportChatAgent (empty history, line 33) and a stored report with
\* up to MaxChatChunks chunks.
InitChat ==
    /\ ResearchIdle
    /\ ChunkerIdle
    /\ EmbedIdle
    /\ StoreIdle
    /\ AgentIdle
    /\ ChatIdle
    /\ DbIdle
    /\ SessionIdle
    /\ spc = "idle"
    /\ \E n \in 0..MaxChatChunks :
          db_chunks \in [0..(n - 1) -> {<<1, 0>>, <<0 - 1, 0>>, PlaceholderVector, NULL}]
    /\ query_embedding = <<0, 0>>
    /\ top_k = 0
    /\ min_score = DefaultMinScore
    /\ search_results = <<>>

NextChat ==
    \/ ChatCall
    \/ CreateEmbedding
    \/ CreateEmbeddingRaises
    \/ SearchChunks
    \/ RetrievalRaises
    \/ AnswerNotFound
    \/ AnswerFromLLM
    \/ AnswerLLMError

SpecChat == InitChat /\ [][NextChat]_vars

\* A new DatabaseManager: the pool holds all its connections.
InitPool ==
    /\ ResearchIdle
    /\ ChunkerIdle
    /\ SearchIdle
    /\ EmbedIdle
    /\ StoreIdle
    /\ AgentIdle
    /\ ChatIdle
    /\ SessionIdle
    /\ DbIdle

NextPool ==
    \/ \E op \in DbOperations : GetConnection(op)
    \/ OperationReturns
    \/ QueryError
    \/ ConnectionLost

SpecPool == InitPool /\ [][NextPool]_vars

InitSession ==
    /\ ResearchIdle
    /\ ChunkerIdle
    /\ SearchIdle
    /\ EmbedIdle
    /\ StoreIdle
    /\ AgentIdle
    /\ ChatIdle
    /\ DbIdle
    /\ SessionIdle

\* The session as the application drives it.  The orchestrator's replies are
\* followed in SpecConversation and the kinds of answer of the chat agent in
\* SpecChat; here a chat call either raises or returns the LLM's answer.
NextSession ==
    \/ \E t \in Tickers, tt \in TradeTypes, reply \in {<<"o">>} :
          StartResearch(t, tt, reply)
    \/ \E sy \in SynthesisOutcomes, st \in StoreOutcomes : GenerateReport(sy, st)
    \/ \E sy \in SynthesisOutcomes, st \in StoreOutcomes : GenerateReportTool(sy, st)
    \/ \E id \in {"r1", "r2", "r3", "r4"} : SelectReport(id)
    \/ \E outcome \in ChatOutcomes : ChatWithReport("q1", outcome)
    \/ ResetConversation

SpecSession == InitSession /\ [][NextSession]_vars

\* The conversation with the orchestrator.
NextConversation ==
    \/ \E t \in Tickers, tt \in TradeTypes, reply \in AssistantReplies \cup {LLMError} :
          StartResearch(t, tt, reply)
    \/ \E u \in UserResponses, reply \in AssistantReplies \cup {LLMError} :
          ContinueConversation(u, reply)
    \/ ResetConversation

SpecConversation == InitSession /\ [][NextConversation]_vars

(***************************************************************************)
(* Claims about the orchestrator and the synthesis prompt.                 *)
(***************************************************************************)
AllTasksFinished == \A s \in SubjectIds : taskState[s] \in {"done", "raised"}

\* C1: whichever tasks raise and in whatever order the tasks complete, the
\* call returns a mapping with exactly one entry per dispatched subject;
\* the entry of a task that raised carries error and an error description
\* as research_output, and the entry of every task that returned is the
\* value that task returned.
C1_OneEntryPerSubject ==
    rpc \in {"returned", "synthesized"} =>
        /\ Len(results) = NumSubjects
        /\ DictKeySet(results) = SubjectIds
        /\ \A s \in SubjectIds :
            /\ taskState[s] = "raised" =>
                /\ DictGet(results, s).has_error
                /\ DictGet(results, s).error = TaskException(s)
                /\ DictGet(results, s).research_output = <<"Error: ", TaskException(s)>>
                /\ DictGet(results, s).subject_id = s
            /\ taskState[s] = "done" => DictGet(results, s) = TaskResult(s)

\* C1 witness: the call returned although some tasks raised and others returned.
C1_Witness ==
    /\ rpc = "returned"
    /\ Cardinality({s \in SubjectIds : taskState[s] = "raised"}) = 2
    /\ Cardinality({s \in SubjectIds : taskState[s] = "done"}) = 4

\* C2: the subjects appear in the synthesis prompt in one fixed canonical
\* order (the registry order of get_research_subjects), whatever the order
\* in which the parallel tasks completed.
C2_PromptInCanonicalOrder ==
    rpc = "synthesized" => prompt_subjects = get_research_subjects

\* C3: the call returns only when no dispatched task is pending or running,
\* and once every task has finished the caller is never blocked: it can
\* take the next finished future or return, so it returns after at most
\* one loop iteration per subject.
C3_ReturnsOnlyAfterAllTasks ==
    /\ rpc \in {"returned", "synthesized"} => AllTasksFinished
    /\ (rpc = "collecting" /\ AllTasksFinished) =>
           ENABLED ((\E s \in SubjectIds : Collect(s)) \/ Return)

\* C3 witness: a run with fewer workers than subjects has returned.
C3_Witness ==
    /\ rpc = "returned"
    /\ max_workers < NumSubjects
    /\ AllTasksFinished


(***************************************************************************)
(* Claims about the report chunker.                                        *)
(***************************************************************************)
\* Position p (0-based) of the text lies in the span of one of the chunks cs.
Covered(cs, p) ==
    \E i \in 1..Len(cs) : cs[i].start_char <= p /\ p < cs[i].end_char

SectionTexts == [i \in 1..Len(sections) |-> sections[i].text]

\* C4: in the sliding-window loop of _chunk_text the window start strictly
\* increases on every iteration (so the loop ends and chunk_report returns),
\* for every text and every chunk-size/overlap configuration.
C4_WindowStartIncreases == [][WindowStep => start' > start]_vars

\* C5: the chunks chunk_report returns carry chunk_index 0, 1, ..., n-1 in
\* list order, for both values of preserve_sections, across all sections
\* and also when whitespace-only windows were dropped.
C5_DenseChunkIndex ==
    cpc = "returned" =>
        \A i \in 1..Len(chunks) : chunks[i].chunk_index = i - 1

\* C5 witness: a returned list from several sections in which the last
\* section lost a whitespace-only window.
C5_Witness ==
    /\ cpc = "returned"
    /\ preserve_sections
    /\ Len(sections) >= 2
    /\ Len(section_chunks) >= 2
    /\ Len(chunks) > Len(section_chunks)
    /\ \E p \in 0..(Len(CurrentSection.text) - 1) : ~Covered(section_chunks, p)

\* C6 as stated: chunking loses no part of the report.  With
\* preserve_sections the sections in order reproduce the report, and the
\* spans of the chunks _chunk_text returns for a text (the whole report
\* without preserve_sections, one section with it) cover every character
\* position of that text.
C6_SpansCoverEveryCharacter ==
    /\ (preserve_sections /\ cpc \in {"chunk_text", "window", "assign", "returned"})
           => JoinLines(SectionTexts) = report_text
    /\ cpc = "assign" =>
           \A p \in 0..(Len(CurrentSection.text) - 1) : Covered(section_chunks, p)

\* C6 as amended: the sections reproduce the report, and the chunk spans
\* cover every character that is not whitespace; a position no span covers
\* is whitespace of a window that was dropped because it held nothing else.
C6_SpansCoverEveryNonBlankCharacter ==
    /\ (preserve_sections /\ cpc \in {"chunk_text", "window", "assign", "returned"})
           => JoinLines(SectionTexts) = report_text
    /\ cpc = "assign" =>
           \A p \in 0..(Len(CurrentSection.text) - 1) :
               ~IsSpace(CurrentSection.text[p + 1]) => Covered(section_chunks, p)

\* C6 witness: _chunk_text returned several chunks for a section of a
\* report with more than one section, after dropping a window of blanks.
C6_Witness ==
    /\ cpc = "assign"
    /\ preserve_sections
    /\ Len(sections) >= 2
    /\ Len(section_chunks) >= 2
    /\ \E p \in 0..(Len(CurrentSection.text) - 1) : ~Covered(section_chunks, p)


(***************************************************************************)
(* Claims about vector search.                                             *)
(***************************************************************************)
Embedded == {i \in DOMAIN db_chunks : db_chunks[i] # NULL}

ScoreOf(i) == CosineSimilarity(query_embedding, db_chunks[i])

Candidates == {i \in Embedded : ScoreGE(ScoreOf(i), min_score)}

\* i comes before j in the reference order: higher score first, equal
\* scores in ascending chunk_index.
RanksBefore(i, j) ==
    \/ ~ScoreGE(ScoreOf(j), ScoreOf(i))
    \/ ScoreEQ(ScoreOf(i), ScoreOf(j)) /\ i < j

ResultIndexes == {search_results[k].chunk_index : k \in 1..Len(search_results)}

\* C7: search_chunks returns an empty result for every top_k <= 0.
C7_NonPositiveTopKIsEmpty ==
    (spc = "returned" /\ top_k <= 0) => search_results = <<>>

\* C8: with the default min_score nothing is filtered by score: with
\* top_k at least the number of embedded chunks, every chunk that has an
\* embedding is returned.
C8_DefaultMinScoreKeepsAll ==
    (spc = "returned" /\ min_score = DefaultMinScore
        /\ top_k >= 1 /\ top_k >= Cardinality(Embedded))
    => ResultIndexes = Embedded

\* C9: for top_k >= 1 the result is the first top_k elements of the
\* reference list: the embedded chunks with score >= min_score, by
\* descending score, equal scores in ascending chunk_index.
C9_FilterSortTruncate ==
    (spc = "returned" /\ top_k >= 1) =>
        /\ Len(search_results) = Min(top_k, Cardinality(Candidates))
        /\ ResultIndexes \subseteq Candidates
        /\ \A k \in 1..Len(search_results) :
              search_results[k].similarity_score = ScoreOf(search_results[k].chunk_index)
        /\ \A k \in 1..(Len(search_results) - 1) :
              RanksBefore(search_results[k].chunk_index, search_results[k + 1].chunk_index)
        /\ \A i \in Candidates \ ResultIndexes : \A k \in 1..Len(search_results) :
              RanksBefore(search_results[k].chunk_index, i)

\* C9 witness: a search in which the filter dropped a chunk, two of the
\* returned chunks tie, and top_k cut the list.
C9_Witness ==
    /\ spc = "returned"
    /\ top_k >= 1
    /\ Candidates # Embedded
    /\ Len(search_results) = top_k
    /\ Cardinality(Candidates) > top_k
    /\ \E i, j \in Candidates : i # j /\ ScoreEQ(ScoreOf(i), ScoreOf(j))


(***************************************************************************)
(* Claims about the embedding service.                                     *)
(***************************************************************************)
\* Offset of the batch that holds position pos (0-based).
BatchOffsetOf(pos) == (pos \div batch_size) * batch_size

BothCallsFail(pos) == BatchOffsetOf(pos) \in batch_fails /\ pos \in item_fails

\* C10: whatever batch calls and per-item calls fail (batch_size >= 1),
\* create_embeddings_batch goes on to its return, and it returns one vector
\* per input text in input order: the zero vector for a text whose batch
\* call and per-item call both failed, the text's own embedding otherwise.
C10_OneVectorPerText ==
    /\ epc = "loop" => ENABLED (EmbedBatch \/ EmbedBatchFallback \/ EmbedReturn)
    /\ epc = "returned" =>
          /\ Len(embeddings) = Len(texts)
          /\ \A k \in 1..Len(texts) :
                embeddings[k] = IF BothCallsFail(k - 1)
                                THEN ZeroVector
                                ELSE Embedding(texts[k])

\* C10 witness: a returned call of several batches in which one batch
\* answered, one batch raised, and in the raised batch one per-item call
\* raised and another answered.
C10_Witness ==
    /\ epc = "returned"
    /\ \E a, b \in 0..(Len(texts) - 1) :
          /\ a # b
          /\ BatchOffsetOf(a) = BatchOffsetOf(b)
          /\ BothCallsFail(a)
          /\ BatchOffsetOf(b) \in batch_fails /\ b \notin item_fails
    /\ \E c \in 0..(Len(texts) - 1) : BatchOffsetOf(c) \notin batch_fails
    /\ texts[1] # texts[Len(texts)]

\* C11: the zero vector put in for a failed text has the length of the
\* configured model, get_embedding_dimension(), so every vector a call
\* returns has that length.
C11_PlaceholderHasModelDimension ==
    epc = "returned" =>
        \A k \in 1..Len(embeddings) : embeddings[k].dim = get_embedding_dimension

(***************************************************************************)
(* Claims about report storage.                                            *)
(***************************************************************************)
ChunksOf(id) == {r \in report_chunks : r.report_id = id}

Deleted(id) == dpc = "done" /\ del_target = id

\* C12: when save_chunks fails, store_report raises, the report row stays
\* (unless a delete_report removed it) and no chunk of the report is
\* persisted; at every moment the report's persisted chunks are none or all.
C12_ChunkBatchAllOrNothing ==
    /\ stpc = "raised_in_save_chunks" =>
          /\ ChunksOf(NewReportId) = {}
          /\ ~Deleted(NewReportId) =>
                /\ ReportExists(NewReportId)
                /\ GetReport(NewReportId).report_text = st_report_text
    /\ \/ ChunksOf(NewReportId) = {}
       \/ ChunksOf(NewReportId) =
             {ChunkRow(NewReportId, st_chunks[k]) : k \in 1..Len(st_chunks)}

\* C12 witness: save_chunks failed after it had inserted some but not all
\* chunks, and the report row is there.
C12_Witness ==
    /\ stpc = "raised_in_save_chunks"
    /\ sk >= 1
    /\ sk < Len(st_chunks)
    /\ ReportExists(NewReportId)

\* C13: every persisted chunk references a persisted report, whatever the
\* interleaving of store_report and delete_report; once delete_report(id)
\* has completed, no chunk of id remains and get_report(id) is None.
C13_ChunksReferenceReports ==
    /\ \A c \in report_chunks : ReportExists(c.report_id)
    /\ dpc = "done" =>
          /\ ChunksOf(del_target) = {}
          /\ GetReport(del_target) = NULL

\* C13 witness: delete_report removed the new report between the report
\* insert and the chunk inserts, and save_chunks then failed.
C13_Witness ==
    /\ Deleted(NewReportId)
    /\ stpc = "raised_in_save_chunks"
    /\ sk = 0
    /\ Len(st_chunks) >= 2

\* The rows get_chunks_by_report is expected to return for the new report.
ExpectedChunks ==
    [k \in 1..Len(chunks) |->
        [report_id |-> NewReportId, chunk_text |-> chunks[k].chunk_text,
         section |-> chunks[k].section, chunk_index |-> k - 1,
         embedding |-> embeddings[k]]]

\* C14: after store_report returned (and the report was not deleted),
\* get_report gives the stored text unchanged and get_chunks_by_report gives
\* the chunks of chunk_report(report_text, preserve_sections=True) in
\* ascending chunk_index, the i-th with the i-th vector of the batch call.
C14_StoredReportReadsBack ==
    stpc = "returned" =>
        /\ ~Deleted(NewReportId) => ReportExists(NewReportId)
        /\ ReportExists(NewReportId) =>
              /\ GetReport(NewReportId).report_text = st_report_text
              /\ report_text = st_report_text /\ preserve_sections
              /\ Len(embeddings) = Len(chunks)
              /\ GetChunksByReportId(NewReportId) = ExpectedChunks

\* C14 witness: a stored report of several chunks in more than one section,
\* one with the zero vector and one with its own embedding.
C14_Witness ==
    /\ stpc = "returned"
    /\ ReportExists(NewReportId)
    /\ \E a, b \in 1..Len(chunks) :
          /\ chunks[a].section # chunks[b].section
          /\ embeddings[a].zero /\ ~embeddings[b].zero

(***************************************************************************)
(* Claims about the agent runs.                                            *)
(***************************************************************************)
LastOutcome == llm_outcomes[Len(llm_outcomes)]

RunFailed == llm_outcomes = <<>> \/ LastOutcome # RunOk

\* C15: research_subject never raises to its caller; when the agent run or
\* any other step of the call fails it returns a result for the same
\* subject_id with error set, an error description as research_output and
\* empty sources.
C15_ResearchSubjectNeverRaises ==
    acomp = "specialized" =>
        /\ apc # "raised"
        /\ (apc = "returned" /\ RunFailed) =>
              /\ agent_result.returned.subject_id = a_subject
              /\ agent_result.returned.error # NoError
              /\ agent_result.returned.sources = <<>>
              /\ agent_result.returned.research_output[1] = "Error in specialized research"

\* C16: synthesize_report never raises; when building the prompt,
\* constructing the agent or running the LLM fails it returns an error
\* string as the report.
C16_SynthesizeReportNeverRaises ==
    acomp = "synthesis" =>
        /\ apc # "raised"
        /\ (apc = "returned" /\ RunFailed) =>
              agent_result.returned[1] = "Error synthesizing report"

\* C17: one specialized agent run makes at most max_retries attempts; an
\* attempt follows only a rate-limit error and a sleep of
\* base_delay * 2^attempt; a non-rate-limit error, or the error of the last
\* allowed attempt, ends the run at once (no sleep, no further attempt) with
\* that error; a successful attempt ends the run with its result.
C17_BoundedBackoffRetry ==
    acomp = "specialized" =>
        /\ Len(llm_outcomes) <= max_retries
        /\ \A k \in 2..Len(llm_outcomes) :
              /\ llm_outcomes[k - 1] # RunOk
              /\ IsRateLimitError(llm_outcomes[k - 1])
              /\ Len(sleeps) >= k - 1
              /\ sleeps[k - 1] = base_delay * (2 ^ (k - 2))
        /\ apc = "retry_loop" => Len(sleeps) = Len(llm_outcomes)
        /\ (apc = "returned" /\ llm_outcomes # <<>>) =>
              /\ Len(sleeps) = Len(llm_outcomes) - 1
              /\ IF LastOutcome = RunOk
                 THEN agent_result.returned = ResearchResult(a_subject)
                 ELSE /\ agent_result.returned.error = LastOutcome
                      /\ \/ ~IsRateLimitError(LastOutcome)
                         \/ Len(llm_outcomes) = max_retries

\* C17 witness: a run that ended on the error of its last allowed attempt,
\* after rate-limit errors and their sleeps.
C17_Witness ==
    /\ acomp = "specialized"
    /\ apc = "returned"
    /\ max_retries >= 3
    /\ Len(llm_outcomes) = max_retries
    /\ LastOutcome # RunOk
    /\ IsRateLimitError(LastOutcome)
    /\ Len(sleeps) = max_retries - 1

\* C18: a rate-limit error is retried (with backoff) in a specialized agent
\* run and in the synthesis agent run, and in no other component; a run
\* that gave up returns a failure value.
C18_RetryAtSpecializedAndSynthesisOnly ==
    /\ (acomp \in {"specialized", "synthesis"} /\ apc = "returned"
            /\ max_retries >= 2 /\ llm_outcomes # <<>>
            /\ llm_outcomes[1] # RunOk /\ IsRateLimitError(llm_outcomes[1]))
       => (Len(llm_outcomes) >= 2 /\ sleeps # <<>>)
    /\ acomp \notin {"specialized", "synthesis"} =>
          (Len(llm_outcomes) <= 1 /\ sleeps = <<>>)

(***************************************************************************)
(* Claims about the report chat.                                           *)
(***************************************************************************)
\* C19: answer_question runs the LLM exactly when the search returned a
\* chunk; with nothing retrieved it returns the fixed not-found answer and
\* makes no LLM call.
C19_LLMOnlyWithChunks ==
    /\ chpc = "returned" =>
          /\ llm_calls = (IF search_results # <<>> THEN 1 ELSE 0)
          /\ search_results = <<>> => ch_answer = NotFoundAnswer
          /\ search_results # <<>> => ch_answer # NotFoundAnswer
    /\ chpc # "returned" => llm_calls = 0

\* C19 witness: the report has embedded chunks, the search returned none of
\* them, and the fixed answer was returned without an LLM call.
C19_Witness ==
    /\ chpc = "returned"
    /\ \E k \in DOMAIN db_chunks : db_chunks[k] # NULL
    /\ search_results = <<>>
    /\ ch_answer = NotFoundAnswer
    /\ llm_calls = 0

HistoryAtStart == IF reset_history THEN <<>> ELSE history_before

TurnAppended ==
    conversation_history =
        HistoryAtStart \o <<[role |-> "user", content |-> question],
                            [role |-> "assistant", content |-> ch_answer]>>

Alternates ==
    /\ Len(conversation_history) % 2 = 0
    /\ \A k \in 1..Len(conversation_history) :
          conversation_history[k].role = (IF k % 2 = 1 THEN "user" ELSE "assistant")

\* C20 as stated: a returning call appends the question and the returned
\* answer, the history alternates user/assistant, reset_history empties the
\* history first, and a call in which embedding or retrieval raises leaves
\* the history as it was before the call.
C20_HistoryUnchangedWhenRaising ==
    /\ Alternates
    /\ chpc = "returned" => TurnAppended
    /\ chpc = "raised" => conversation_history = history_before

\* C20 amended: as above, but a call in which embedding or retrieval raises
\* appends nothing: the history is the one the call started with, which is
\* the empty history when reset_history was set.
C20_TurnAppendedOnReturn ==
    /\ Alternates
    /\ chpc = "returned" => TurnAppended
    /\ chpc = "raised" => conversation_history = HistoryAtStart
    /\ chpc \in {"embedding", "searching"} => conversation_history = HistoryAtStart

\* C20 witness: after a first turn was recorded, a call with reset_history
\* set raised; the history is empty and the first turn is gone.
C20_Witness ==
    /\ chpc = "raised"
    /\ reset_history
    /\ Len(history_before) = 2
    /\ conversation_history = <<>>

(***************************************************************************)
(* Further claims about the chunker.                                       *)
(***************************************************************************)
NoHeaderLine(text) ==
    \A k \in 1..Len(SplitLines(text)) : ~IsHeader(Strip(SplitLines(text)[k]))

\* C23: when no line of the document is detected as a header, section
\* splitting returns exactly one section holding the whole document, named
\* "Full Report" and not "Introduction".
C23_NoHeaderGivesFullReport ==
    (cpc # "called" /\ preserve_sections /\ NoHeaderLine(report_text)) =>
        /\ Len(sections) = 1
        /\ sections[1].text = report_text
        /\ sections[1].name = FullReport

\* The places (0-based, as in the source) where a window starting at st
\* could be cut: the capital letter of a sentence end, blanks, capital
\* that lies wholly in the final fifth of the window.
BoundaryCuts(text, st, size) ==
    LET raw == st + size
        from == Max(Max(st, raw - (size \div 5)), 0)
    IN  {c \in (from + 2)..(raw - 1) :
            /\ c < Len(text)
            /\ IsUpper(text[c + 1])
            /\ \E p \in from..(c - 2) :
                  /\ IsSentenceEnd(text[p + 1])
                  /\ \A q \in (p + 1)..(c - 1) : IsSpace(text[q + 1])}

ActualEnd(text, st, size) ==
    IF st + size < Len(text) /\ BoundaryCuts(text, st, size) # {}
    THEN CHOOSE c \in BoundaryCuts(text, st, size) :
            \A d \in BoundaryCuts(text, st, size) : c >= d
    ELSE st + size

\* C24: in a section that needs several windows, the next window starts
\* exactly OverlapChars before the actual end of the window before it -- the
\* last sentence-boundary cut in the final fifth of the window when there is
\* one, the raw window edge otherwise -- so consecutive spans overlap by
\* OverlapChars, and no span is longer than the target size.
C24_NextWindowStartsOverlapBeforeEnd ==
    [][WindowStep =>
        LET end == ActualEnd(CurrentSection.text, start, ChunkSizeChars)
        IN  /\ start' = end - OverlapChars
            /\ end > start
            /\ end - start <= ChunkSizeChars
            /\ \/ section_chunks' = section_chunks
               \/ /\ Len(section_chunks') = Len(section_chunks) + 1
                  /\ section_chunks'[Len(section_chunks')].start_char = start
                  /\ section_chunks'[Len(section_chunks')].end_char = end]_vars

\* C24 witness: the first window was cut at a sentence boundary and the
\* second one starts a non-zero overlap before that cut.
C24_Witness ==
    /\ cpc \in {"window", "assign"}
    /\ Len(CurrentSection.text) > ChunkSizeChars
    /\ OverlapChars > 0
    /\ Len(section_chunks) >= 2
    /\ section_chunks[1].end_char < ChunkSizeChars
    /\ section_chunks[2].start_char = section_chunks[1].end_char - OverlapChars

\* C27: every chunk _chunk_text hands back lies inside the text it was cut
\* from, 0 <= start_char <= end_char <= length of that text, and its
\* chunk_text is the text of that span up to surrounding whitespace; also
\* for the last chunk of a text that needed several windows.
C27_SpansInsideText ==
    cpc = "assign" =>
        \A k \in 1..Len(section_chunks) :
            /\ 0 <= section_chunks[k].start_char
            /\ section_chunks[k].start_char <= section_chunks[k].end_char
            /\ section_chunks[k].end_char <= Len(CurrentSection.text)
            /\ Strip(section_chunks[k].chunk_text) =
                  Strip(Slice(CurrentSection.text, section_chunks[k].start_char,
                              section_chunks[k].end_char))

(***************************************************************************)
(* Further claims about the report chat.                                   *)
(***************************************************************************)
\* C28: a chunk whose stored embedding is the zero-vector placeholder is
\* never retrieved: against a report whose every chunk carries the
\* placeholder answer_question returns the fixed answer without an LLM
\* call, and in a mixed report no placeholder chunk is among the chunks the
\* search hands to the LLM.
C28_PlaceholderChunksNotRetrieved ==
    chpc = "returned" =>
        /\ \A k \in 1..Len(search_results) :
              db_chunks[search_results[k].chunk_index] # PlaceholderVector
        /\ (/\ DOMAIN db_chunks # {}
            /\ \A c \in DOMAIN db_chunks : db_chunks[c] = PlaceholderVector)
           => (ch_answer = NotFoundAnswer /\ llm_calls = 0)

(***************************************************************************)
(* Claims about the database connections.                                  *)
(***************************************************************************)
\* C22: every DatabaseManager operation releases its pooled connection
\* before it returns or raises -- on success, on a query error and when the
\* connection is lost -- so between operations no connection is checked out
\* and the pool of 5 is never exhausted.
C22_ConnectionsReleased ==
    /\ dbpc = "idle" => pool_available = PoolSize
    /\ pool_available > 0 \/ dbpc = "acquired"

(***************************************************************************)
(* Claims about the StockResearchAgent.                                    *)
(***************************************************************************)
GenerateOps == {"generate_report", "generate_report_tool"}

StoreFailed(steps) ==
    steps.store \in {"raised_in_save_report", "raised_after_save_report"}

\* C21: when store_report fails during report generation it is not
\* retried, current_report_id is not changed, and both generate_report's
\* return value and the generate_report tool's status message are error
\* messages, never a success message.
C21_StoreFailureSurfacesAsError ==
    [][(last_op' \in GenerateOps /\ StoreFailed(gr_steps')) =>
          /\ gr_steps'.store_calls = 1
          /\ current_report_id' = current_report_id
          /\ gr_return' \in ErrorMessages
          /\ last_op' = "generate_report_tool" =>
                (tool_status' \in ErrorMessages /\ tool_status' # ToolSuccess)]_vars

\* C25: when the synthesis run fails and synthesize_report yields its error
\* string, generate_report stores no report row and no chunks and leaves
\* current_report_id unchanged.
C25_NoReportForFailedSynthesis ==
    [][(last_op' \in GenerateOps /\ gr_steps'.synthesis = "error_string") =>
          /\ stored_reports' = stored_reports
          /\ current_report_id' = current_report_id]_vars

\* C26: the prior-conversation part of the RAG prompt built for a question
\* about report R carries only turns that were asked about R, also after the
\* report id changed without a reset.
C26_PromptHistoryIsAboutSameReport ==
    (last_op = "chat_with_report" /\ chat_reached) =>
        \A k \in 1..Len(rag_prompt_report_ids) :
            rag_prompt_report_ids[k] = current_report_id

SessionActive == current_ticker # None /\ current_trade_type # None

\* C29: generate_report dispatches the research only while a session is
\* active and chat_with_report reaches the chat agent only while
\* current_report_id is set; otherwise each returns its error message and
\* calls no collaborator; reset_conversation leaves no session, no report
\* id and two empty histories.
C29_GuardsAndReset ==
    /\ last_op \in GenerateOps =>
          /\ gr_steps # NotCalled => SessionActive
          /\ ~SessionActive => (gr_return = NoSessionError /\ gr_steps = NotCalled)
    /\ last_op = "chat_with_report" =>
          /\ chat_reached => current_report_id # None
          /\ current_report_id = None => (~chat_reached /\ ch_answer = NoReportError)
    /\ last_op = "reset_conversation" =>
          /\ ~SessionActive
          /\ current_report_id = None
          /\ orch_history = <<>>
          /\ conversation_history = <<>>

\* C29 witness: after a report was stored and discussed, the conversation
\* was reset and generate_report answered with the no-session error.
C29_Witness ==
    /\ last_op = "generate_report"
    /\ ~SessionActive
    /\ gr_return = NoSessionError
    /\ gr_steps = NotCalled
    /\ stored_reports # {}
    /\ current_report_id = None
    /\ conversation_history = <<>>

\* The history as it was when the orchestrator was run: the assistant's
\* message is appended afterwards.
HistoryWhenRun ==
    IF llm_result = "ok" THEN SubSeq(orch_history, 1, Len(orch_history) - 1)
    ELSE orch_history

\* C30: the message list sent to the orchestrator holds the current user
\* message exactly once, as its last element, after the non-system messages
\* of the most recent ORCHESTRATOR_MAX_HISTORY_MESSAGES history entries, each
\* truncated to ORCHESTRATOR_MAX_MESSAGE_CHARS characters plus the marker.
C30_CurrentMessageSentOnce ==
    last_op \in {"start_research", "continue_conversation"} =>
        LET current == HistoryWhenRun[Len(HistoryWhenRun)]
            recent == LastN(HistoryWhenRun, ORCHESTRATOR_MAX_HISTORY_MESSAGES)
            earlier == SubSeq(recent, 1, Len(recent) - 1)
            NonSystem(msg) == msg.role # "system"
            kept == SelectSeq(earlier, NonSystem)
        IN  llm_messages =
                [k \in 1..Len(kept) |->
                    [role |-> kept[k].role, content |-> Truncate(kept[k].content)]]
                \o <<[role |-> "user", content |-> Truncate(current.content)]>>

=============================================================================
